---- MODULE Spec2Model ----
(***************************************************************************)
(* A model of wardrobe.py: the cascading values (Defaultable), the options *)
(* and job descriptors built on them (Option, BackupRun) and the           *)
(* directory lock (Locker).                                                *)
(***************************************************************************)
EXTENDS Integers, Sequences, FiniteSets, TLC

VARIABLES
    heap,       \* the Defaultable objects, by identity (1..Len(heap))
    wasSet,     \* history: the Defaultables whose value was ever supplied
    overridden, \* history: the Defaultables of BackupRuns that an assignment
                \* has given a value since they were built or last deleted
    fsets,      \* the FilterSet objects, by identity: each one's _filters
    runs,       \* the BackupRun objects, by identity
    optOrder,   \* the iteration order of the _defaultables dict
    attr,       \* the attribute name the calls on the BackupRuns are made with
    nops,       \* number of calls made on the BackupRuns
    lockers,    \* the Locker objects, by identity: process, _path, _locked
    dirs,       \* the directories that exist in the filesystem
    procs,      \* the processes: status, the call in progress, atexit hooks
    obj,        \* a single Option, Place or generator that calls are made on
    ret         \* what the last operation returned or raised

vars == <<heap, wasSet, overridden, fsets, runs, optOrder, attr, nops,
          lockers, dirs, procs, obj, ret>>
runVars == <<overridden, fsets, runs, optOrder, attr, nops, obj>>
lockVars == <<lockers, dirs, procs>>

\* No Locker has been built and no process is looked at.
NoLockers == lockers = <<>> /\ dirs = {} /\ procs = <<>>

(***************************************************************************)
(* Python values. Every value is a record [t, v]: t is the Python type and *)
(* v the payload, so that values of different types can be compared.       *)
(***************************************************************************)
PyNone == [t |-> "NoneType", v |-> 0]
PyBool(b) == [t |-> "bool", v |-> b]
PyInt(i) == [t |-> "int", v |-> i]
PyStr(s) == [t |-> "str", v |-> s]
PyRef(id) == [t |-> "Defaultable", v |-> id]
PyType(name) == [t |-> "type", v |-> name]
PyTuple(seq) == [t |-> "tuple", v |-> seq]

\* The number a bool or an int compares as.
PyNum(value) ==
    IF value.t = "bool" THEN (IF value.v THEN 1 ELSE 0) ELSE value.v

\* a == b in Python: True == 1 and False == 0.
PyEq(a, b) ==
    IF a.t \in {"bool", "int"} /\ b.t \in {"bool", "int"}
    THEN PyNum(a) = PyNum(b)
    ELSE a = b

\* value in tuple_
PyIn(value, tuple_) == \E i \in 1..Len(tuple_) : PyEq(value, tuple_[i])

Digits == <<"0", "1", "2", "3", "4", "5", "6", "7", "8", "9">>

RECURSIVE NatToStr(_)
NatToStr(n) ==
    IF n < 10 THEN Digits[n + 1]
    ELSE NatToStr(n \div 10) \o Digits[(n % 10) + 1]

\* str(value)
PyToStr(value) ==
    CASE value.t = "str" -> value.v
      [] value.t = "int" ->
            IF value.v < 0 THEN "-" \o NatToStr(0 - value.v) ELSE NatToStr(value.v)
      [] value.t = "bool" -> IF value.v THEN "True" ELSE "False"
      [] OTHER -> "None"

(***************************************************************************)
(* str methods on strings spelled out as sequences of characters.          *)
(***************************************************************************)
\* s.replace(old, new), old not empty: leftmost matches, not overlapping.
RECURSIVE StrReplace(_, _, _)
StrReplace(s, old, new) ==
    IF Len(s) < Len(old) THEN s
    ELSE IF SubSeq(s, 1, Len(old)) = old
         THEN new \o StrReplace(SubSeq(s, Len(old) + 1, Len(s)), old, new)
         ELSE <<s[1]>> \o StrReplace(Tail(s), old, new)

\* The string that a sequence of characters spells.
RECURSIVE Join(_)
Join(s) == IF s = <<>> THEN "" ELSE Head(s) \o Join(Tail(s))

\* isinstance(value, type_): bool is a subclass of int in Python.
PyIsInstance(value, type_) ==
    \/ value.t = type_
    \/ type_ = "int" /\ value.t = "bool"

\* The outcome of an operation: the exception it raised ("" for none) and
\* the value it returned.
Returned(op, who, val) == [op |-> op, who |-> who, exc |-> "", val |-> val]
Raised(op, who, exc) == [op |-> op, who |-> who, exc |-> exc, val |-> PyNone]
NoCall == [op |-> "", who |-> 0, exc |-> "", val |-> PyNone]

(***************************************************************************)
(* Defaultable                                                             *)
(***************************************************************************)
MaxNodes == 3

\* The values handed to a Defaultable in the cascading-chain specification.
ChainValues == {PyNone, PyInt(1), PyStr("a")}
ChainTypes == {"", "int"}

\* Defaultable._getvalue reading the parent's stored value (parent._value)
\* instead of the parent's value property.
Defaultable_getvalue_stored(h, self) ==
    IF h[self].defaulting /\ h[self].parent # 0
    THEN h[h[self].parent].value
    ELSE h[self].value

\* Defaultable._getvalue: the parent's value while defaulting and a parent
\* exists, the stored value otherwise.
RECURSIVE Defaultable_getvalue(_, _)
Defaultable_getvalue(h, self) ==
    IF h[self].defaulting /\ h[self].parent # 0
    THEN Defaultable_getvalue(h, h[self].parent)
    ELSE h[self].value

\* The Defaultable whose stored value Defaultable_getvalue returns: the
\* object that reading self.value hands out lives in this node.
RECURSIVE Defaultable_holder(_, _)
Defaultable_holder(h, self) ==
    IF h[self].defaulting /\ h[self].parent # 0
    THEN Defaultable_holder(h, h[self].parent)
    ELSE self

\* Whether Defaultable._setvalue raises TypeError for this value.
Defaultable_setvalue_raises(h, self, value) ==
    h[self].checktype # "" /\ ~PyIsInstance(value, h[self].checktype)

\* Defaultable._setvalue past the type check.
Defaultable_setvalue(h, self, value) ==
    [h EXCEPT ![self].defaulting = FALSE, ![self].value = value]

\* Defaultable.__init__: the new object, as it is appended to the heap.
Defaultable_init(parentorvalue, checktype) ==
    IF parentorvalue.t = "Defaultable"
    THEN [parent |-> parentorvalue.v, value |-> PyNone, defaulting |-> TRUE,
          checktype |-> checktype]
    ELSE [parent |-> 0, value |-> parentorvalue, defaulting |-> FALSE,
          checktype |-> checktype]

Nodes == 1..Len(heap)

\* Defaultable(parentorvalue, checktype). The nodes of one run of the chain
\* specification are all built with the same checktype.
ChainNew(parentorvalue, checktype) ==
    /\ Len(heap) < MaxNodes
    /\ \A n \in Nodes : heap[n].checktype = checktype
    /\ heap' = Append(heap, Defaultable_init(parentorvalue, checktype))
    /\ wasSet' = IF parentorvalue.t \in {"Defaultable", "NoneType"}
                 THEN wasSet ELSE wasSet \cup {Len(heap) + 1}
    /\ ret' = Returned("Defaultable", 0, PyNone)
    /\ UNCHANGED runVars
    /\ UNCHANGED lockVars

\* node.value = value
ChainSet(self, value) ==
    /\ IF Defaultable_setvalue_raises(heap, self, value)
       THEN /\ ret' = Raised("setvalue", 0, "TypeError")
            /\ UNCHANGED <<heap, wasSet>>
       ELSE /\ heap' = Defaultable_setvalue(heap, self, value)
            /\ wasSet' = wasSet \cup {self}
            /\ ret' = Returned("setvalue", 0, PyNone)
    /\ UNCHANGED runVars
    /\ UNCHANGED lockVars

\* node.defaulting = True
ChainReset(self) ==
    /\ heap' = [heap EXCEPT ![self].defaulting = TRUE]
    /\ ret' = Returned("reset", 0, PyNone)
    /\ UNCHANGED <<wasSet, runVars>>
    /\ UNCHANGED lockVars

\* reading node.value
ChainRead(self) ==
    /\ ret' = Returned("getvalue", self, Defaultable_getvalue(heap, self))
    /\ UNCHANGED <<heap, wasSet, runVars>>
    /\ UNCHANGED lockVars

ChainInit ==
    /\ heap = <<>>
    /\ wasSet = {}
    /\ overridden = {}
    /\ fsets = <<>>
    /\ runs = <<>>
    /\ optOrder = <<>>
    /\ attr = ""
    /\ nops = 0
    /\ NoLockers
    /\ obj = PyNone
    /\ ret = NoCall

ChainNext ==
    \/ \E v \in ChainValues, ty \in ChainTypes : ChainNew(v, ty)
    \/ \E p \in Nodes, ty \in ChainTypes : ChainNew(PyRef(p), ty)
    \/ \E n \in Nodes, v \in ChainValues : ChainSet(n, v)
    \/ \E n \in Nodes : ChainReset(n)
    \/ \E n \in Nodes : ChainRead(n)

SpecChain == ChainInit /\ [][ChainNext]_vars

\* A node delegates its reads when it is inheriting and has a parent.
Delegates(h, n) == h[n].defaulting /\ h[n].parent # 0

\* a is the nearest ancestor of n that does not delegate: a parent path leads
\* from n to a through delegating nodes only, and a itself does not delegate.
NearestSettled(h, n, a) ==
    \E m \in 1..Len(h) : \E path \in [1..m -> 1..Len(h)] :
        /\ path[1] = n
        /\ path[m] = a
        /\ \A i \in 1..(m - 1) :
              Delegates(h, path[i]) /\ h[path[i]].parent = path[i + 1]
        /\ ~Delegates(h, a)

\* C1: the value read from an inheriting node is the stored value of its
\* nearest ancestor that is not inheriting (or of the root of its chain),
\* and it is absent (None) when that ancestor was never given a value.
C1_EffectiveValue ==
    (ret.op = "getvalue" /\ Delegates(heap, ret.who)) =>
        \E a \in Nodes \ {ret.who} :
            /\ NearestSettled(heap, ret.who, a)
            /\ ret.val = heap[a].value
            /\ (a \notin wasSet => ret.val = PyNone)

\* C1 witness: a node two levels below the root is read while it and its
\* parent inherit, the parent keeps a stale value of its own from an earlier
\* set, and the read returns the value set on the root.
C1_Witness ==
    /\ ret.op = "getvalue"
    /\ Delegates(heap, ret.who)
    /\ Delegates(heap, heap[ret.who].parent)
    /\ heap[heap[ret.who].parent].value = PyStr("a")
    /\ ~Delegates(heap, heap[heap[ret.who].parent].parent)
    /\ ret.val = PyInt(1)

(***************************************************************************)
(* Option                                                                  *)
(***************************************************************************)
\* The option names, spelled out.
Spell ==
       "create-full-path" :> <<"c", "r", "e", "a", "t", "e", "-", "f", "u", "l", "l", "-", "p", "a", "t", "h">>
    @@ "force" :> <<"f", "o", "r", "c", "e">>
    @@ "never-drop-acls" :> <<"n", "e", "v", "e", "r", "-", "d", "r", "o", "p", "-", "a", "c", "l", "s">>
    @@ "override-chars-to-quote" :> <<"o", "v", "e", "r", "r", "i", "d", "e", "-", "c", "h", "a", "r", "s", "-", "t", "o", "-", "q", "u", "o", "t", "e">>
    @@ "preserve-numerical-ids" :> <<"p", "r", "e", "s", "e", "r", "v", "e", "-", "n", "u", "m", "e", "r", "i", "c", "a", "l", "-", "i", "d", "s">>
    @@ "use-compatible-timestamps" :> <<"u", "s", "e", "-", "c", "o", "m", "p", "a", "t", "i", "b", "l", "e", "-", "t", "i", "m", "e", "s", "t", "a", "m", "p", "s">>
    @@ "no-acls" :> <<"n", "o", "-", "a", "c", "l", "s">>
    @@ "no-compare-inode" :> <<"n", "o", "-", "c", "o", "m", "p", "a", "r", "e", "-", "i", "n", "o", "d", "e">>
    @@ "no-compression" :> <<"n", "o", "-", "c", "o", "m", "p", "r", "e", "s", "s", "i", "o", "n">>
    @@ "no-eas" :> <<"n", "o", "-", "e", "a", "s">>
    @@ "no-file-statistics" :> <<"n", "o", "-", "f", "i", "l", "e", "-", "s", "t", "a", "t", "i", "s", "t", "i", "c", "s">>
    @@ "no-hard-links" :> <<"n", "o", "-", "h", "a", "r", "d", "-", "l", "i", "n", "k", "s">>
    @@ "no-resource-forks" :> <<"n", "o", "-", "r", "e", "s", "o", "u", "r", "c", "e", "-", "f", "o", "r", "k", "s">>
    @@ "ssh-no-compression" :> <<"s", "s", "h", "-", "n", "o", "-", "c", "o", "m", "p", "r", "e", "s", "s", "i", "o", "n">>
    @@ "carbonfile" :> <<"c", "a", "r", "b", "o", "n", "f", "i", "l", "e">>
    @@ "group-mapping-file" :> <<"g", "r", "o", "u", "p", "-", "m", "a", "p", "p", "i", "n", "g", "-", "f", "i", "l", "e">>
    @@ "no-compression-regexp" :> <<"n", "o", "-", "c", "o", "m", "p", "r", "e", "s", "s", "i", "o", "n", "-", "r", "e", "g", "e", "x", "p">>
    @@ "remote-schema" :> <<"r", "e", "m", "o", "t", "e", "-", "s", "c", "h", "e", "m", "a">>
    @@ "remote-tempdir" :> <<"r", "e", "m", "o", "t", "e", "-", "t", "e", "m", "p", "d", "i", "r">>
    @@ "tempdir" :> <<"t", "e", "m", "p", "d", "i", "r">>
    @@ "user-mapping-file" :> <<"u", "s", "e", "r", "-", "m", "a", "p", "p", "i", "n", "g", "-", "f", "i", "l", "e">>
    @@ "terminal-verbosity" :> <<"t", "e", "r", "m", "i", "n", "a", "l", "-", "v", "e", "r", "b", "o", "s", "i", "t", "y">>
    @@ "verbosity" :> <<"v", "e", "r", "b", "o", "s", "i", "t", "y">>

\* An Option instance: _name, _type and _value. _type is True, False or one
\* of the types str, int and Ternary; the Ternary instance an Option of type
\* Ternary holds is represented by the value stored in it.
PyOption(name, type_, value) ==
    [t |-> "Option", v |-> [name |-> name, type |-> type_, value |-> value]]

TrueFalse == <<PyBool(TRUE), PyBool(FALSE)>>

\* Whether Option._setvalue (and Ternary._setvalue under it) raises TypeError.
Option_setvalue_raises(o, value) ==
    IF o.type = PyType("Ternary")
    THEN ~PyIn(value, <<PyBool(TRUE), PyBool(FALSE), PyNone>>)
    ELSE ~ \/ PyIn(o.type, TrueFalse) /\ PyIn(value, TrueFalse)
           \/ /\ o.type \in {PyType("int"), PyType("str")}
              /\ (value = PyNone \/ PyIsInstance(value, o.type.v))

\* Option._setvalue past the type check.
Option_setvalue(o, value) == [o EXCEPT !.value = value]

\* Option.__init__ for the supported types.
Option_init(name, type_) ==
    IF type_ = PyType("Ternary") \/ type_ \in {PyType("str"), PyType("int")}
    THEN PyOption(name, type_, PyNone)
    ELSE PyOption(name, type_, type_)

\* Option.default() resetting every type to None.
Option_default_value_none(o) == PyNone

\* The value Option.default() assigns.
Option_default_value(o) ==
    IF o.type \in {PyType("str"), PyType("int"), PyType("Ternary")}
    THEN PyNone
    ELSE o.type

\* Option.default()
Option_default(o) == Option_setvalue(o, Option_default_value(o))

\* Option._getdashname
Option_getdashname(o) ==
    IF o.type = PyType("Ternary")
    THEN IF o.value = PyBool(TRUE) THEN "--" \o o.name
         ELSE IF o.value = PyBool(FALSE) THEN "--no-" \o o.name
         ELSE ""
    ELSE "--" \o o.name

\* Option._getpropertyname
Option_getpropertyname(o) ==
    LET n == Spell[o.name]
        m == IF o.type \notin {PyType("str"), PyType("int")}
             THEN StrReplace(n, <<"n", "o", "-">>, <<>>)
             ELSE n
    IN Join(StrReplace(m, <<"-">>, <<>>))

\* Option._getparams rendering a boolean by its truth value instead of by
\* comparing it with the default.
Option_getparams_truthy(o) ==
    IF o.type = PyType("str") /\ o.value # PyNone
    THEN <<Option_getdashname(o), o.value.v>>
    ELSE IF o.type = PyType("int") /\ o.value # PyNone
    THEN <<Option_getdashname(o), PyToStr(o.value)>>
    ELSE IF PyIn(o.type, TrueFalse) /\ PyEq(o.value, PyBool(TRUE))
    THEN <<Option_getdashname(o)>>
    ELSE IF o.type = PyType("Ternary") /\ PyIn(o.value, TrueFalse)
    THEN <<Option_getdashname(o)>>
    ELSE <<>>

\* Option._getparams
Option_getparams(o) ==
    IF o.type = PyType("str") /\ o.value # PyNone
    THEN <<Option_getdashname(o), o.value.v>>
    ELSE IF o.type = PyType("int") /\ o.value # PyNone
    THEN <<Option_getdashname(o), PyToStr(o.value)>>
    ELSE IF PyIn(o.type, TrueFalse) /\ ~PyEq(o.value, o.type)
    THEN <<Option_getdashname(o)>>
    ELSE IF o.type = PyType("Ternary") /\ PyIn(o.value, TrueFalse)
    THEN <<Option_getdashname(o)>>
    ELSE <<>>

(***************************************************************************)
(* Place, Source, Destination                                              *)
(***************************************************************************)
\* Place.__init__ of the class cls ("Source" or "Destination").
Place_init(cls, directory, host, user) ==
    [t |-> cls, v |-> [defaultdir |-> "/", directory |-> directory,
                       host |-> host, user |-> user]]

\* Place._getstring using the directory as it is, without falling back to
\* defaultdir.
Place_getstring_nodefault(self) ==
    LET directory == IF self.directory.t = "str" THEN self.directory.v ELSE ""
    IN IF self.user.t = "str"
       THEN IF self.host.t = "str"
            THEN [exc |-> "",
                  val |-> self.user.v \o "@" \o self.host.v \o "::" \o directory]
            ELSE [exc |-> "SettingCombinationError", val |-> "user without host"]
       ELSE IF self.host.t = "str"
            THEN [exc |-> "", val |-> self.host.v \o "::" \o directory]
            ELSE IF self.directory.t = "str"
                 THEN [exc |-> "", val |-> directory]
                 ELSE [exc |-> "SettingCombinationError",
                       val |-> "no settings specified"]

\* Place._getstring: the string, or the SettingCombinationError it raises.
Place_getstring(self) ==
    LET directory == IF self.directory.t = "str"
                     THEN self.directory.v ELSE self.defaultdir
    IN IF self.user.t = "str"
       THEN IF self.host.t = "str"
            THEN [exc |-> "",
                  val |-> self.user.v \o "@" \o self.host.v \o "::" \o directory]
            ELSE [exc |-> "SettingCombinationError", val |-> "user without host"]
       ELSE IF self.host.t = "str"
            THEN [exc |-> "", val |-> self.host.v \o "::" \o directory]
            ELSE IF self.directory.t = "str"
                 THEN [exc |-> "", val |-> directory]
                 ELSE [exc |-> "SettingCombinationError",
                       val |-> "no settings specified"]

(***************************************************************************)
(* Filter, FilterSet                                                       *)
(***************************************************************************)
\* The filter classes derived from FlagFilter.
FlagFilters == {"ExcludeDeviceFiles", "ExcludeOtherFilesystems",
                "ExcludeSpecialFiles", "ExcludeSockets",
                "ExcludeSymbolicLinks", "IncludeSpecialFiles",
                "IncludeSymbolicLinks"}

\* The _param of each filter class.
FilterParam ==
       "Exclude" :> "exclude"
    @@ "ExcludeDeviceFiles" :> "exclude-device-files"
    @@ "ExcludeFilelist" :> "exclude-filelist"
    @@ "ExcludeGlobbingFilelist" :> "exclude-globbing-filelist"
    @@ "ExcludeOtherFilesystems" :> "exclude-other-filesystems"
    @@ "ExcludeRegexp" :> "exclude-regexp"
    @@ "ExcludeSpecialFiles" :> "exclude-special-files"
    @@ "ExcludeSockets" :> "exclude-sockets"
    @@ "ExcludeSymbolicLinks" :> "exclude-symbolic-links"
    @@ "Include" :> "include"
    @@ "IncludeFilelist" :> "include-filelist"
    @@ "IncludeGlobbingFilelist" :> "include-globbing-filelist"
    @@ "IncludeRegexp" :> "include-regexp"
    @@ "IncludeSpecialFiles" :> "include-special-files"
    @@ "IncludeSymbolicLinks" :> "include-symbolic-links"
    @@ "MaxFileSize" :> "max-file-size"
    @@ "MinFileSize" :> "min-file-size"

\* A Filter instance of class cls; value is None for a FlagFilter.
PyFilter(cls, value) == [t |-> "Filter", v |-> [cls |-> cls, value |-> value]]

\* FlagFilter._getparams and SingleFilter._getparams
Filter_getparams(f) ==
    IF f.cls \in FlagFilters
    THEN <<"--" \o FilterParam[f.cls]>>
    ELSE <<"--" \o FilterParam[f.cls], PyToStr(f.value)>>

\* FilterSet._getparams over the list _filters
RECURSIVE FilterSet_getparams(_)
FilterSet_getparams(filters) ==
    IF filters = <<>> THEN <<>>
    ELSE Filter_getparams(Head(filters).v) \o FilterSet_getparams(Tail(filters))

\* FilterSet.extend(*args): the list after the call and the exception that
\* ended it ("" for none). Filters are appended as the arguments are walked,
\* so what was appended before a TypeError stays.
RECURSIVE FilterSet_extend(_, _)
RECURSIVE FilterSet_extend_each(_, _)
RECURSIVE FilterSet_extend_backwards(_, _)
\* FilterSet.extend walking its arguments from the last to the first.
FilterSet_extend_backwards(filters, args) ==
    IF args = <<>> THEN [filters |-> filters, exc |-> ""]
    ELSE LET arg == args[Len(args)]
             rest == SubSeq(args, 1, Len(args) - 1)
         IN
         IF arg.t = "Filter"
         THEN FilterSet_extend_backwards(Append(filters, arg), rest)
         ELSE IF arg.t # "tuple"
              THEN [filters |-> filters, exc |-> "TypeError"]
              ELSE LET sub == FilterSet_extend_each(filters, arg.v) IN
                   IF sub.exc # "" THEN sub
                   ELSE FilterSet_extend_backwards(sub.filters, rest)

FilterSet_extend(filters, args) ==
    IF args = <<>> THEN [filters |-> filters, exc |-> ""]
    ELSE LET arg == Head(args) IN
         IF arg.t = "Filter"
         THEN FilterSet_extend(Append(filters, arg), Tail(args))
         ELSE IF arg.t # "tuple"
              THEN [filters |-> filters, exc |-> "TypeError"]
              ELSE LET sub == FilterSet_extend_each(filters, arg.v) IN
                   IF sub.exc # "" THEN sub
                   ELSE FilterSet_extend(sub.filters, Tail(args))

\* The loop "for subarg in arg: self.extend(subarg)" of FilterSet.extend.
FilterSet_extend_each(filters, subargs) ==
    IF subargs = <<>> THEN [filters |-> filters, exc |-> ""]
    ELSE LET one == FilterSet_extend(filters, <<Head(subargs)>>) IN
         IF one.exc # "" THEN one
         ELSE FilterSet_extend_each(one.filters, Tail(subargs))

\* FilterSet.__init__(*args)
FilterSet_init(args) == FilterSet_extend(<<>>, <<PyTuple(args)>>)

(***************************************************************************)
(* BackupRun                                                               *)
(***************************************************************************)
MaxRuns == 2
MaxOps == 3

\* The supported settings, grouped by type or default value.
possible == <<
    [type_ |-> PyBool(FALSE), tuple_ |-> <<
        "create-full-path", "force", "never-drop-acls", "override-chars-to-quote", "preserve-numerical-ids", "use-compatible-timestamps">>],
    [type_ |-> PyBool(TRUE), tuple_ |-> <<
        "no-acls", "no-compare-inode", "no-compression", "no-eas", "no-file-statistics", "no-hard-links", "no-resource-forks", "ssh-no-compression">>],
    [type_ |-> PyType("Ternary"), tuple_ |-> <<
        "carbonfile">>],
    [type_ |-> PyType("str"), tuple_ |-> <<
        "group-mapping-file", "no-compression-regexp", "remote-schema", "remote-tempdir", "tempdir", "user-mapping-file">>],
    [type_ |-> PyType("int"), tuple_ |-> <<
        "terminal-verbosity", "verbosity">>]
    >>

\* The (type_, name) pairs in the order the loops of __init__ visit them.
RECURSIVE PossibleItemsFrom(_)
PossibleItemsFrom(k) ==
    IF k > Len(possible) THEN <<>>
    ELSE [i \in 1..Len(possible[k].tuple_) |->
             [type_ |-> possible[k].type_, name |-> possible[k].tuple_[i]]]
         \o PossibleItemsFrom(k + 1)

PossibleItems == PossibleItemsFrom(1)

\* The Option instances the loops of __init__ build, in order.
PossibleOptions ==
    [k \in 1..Len(PossibleItems) |->
        Option_init(PossibleItems[k].name, PossibleItems[k].type_)]

\* Their property names, in the same order.
PropertyNames ==
    [k \in 1..Len(PossibleItems) |-> Option_getpropertyname(PossibleOptions[k].v)]

\* BackupRun.__init__ setting the parent of the option's Defaultable but
\* leaving out "d.defaulting = True".
BackupRun_init_defaultable_unlinked(parent, k) ==
    LET o == PossibleOptions[k]
        propertyname == PropertyNames[k]
        d == Defaultable_init(o, "Option")
    IN IF parent # 0 /\ propertyname \in DOMAIN runs[parent].defaultables
       THEN [d EXCEPT !.parent = runs[parent].defaultables[propertyname]]
       ELSE d

\* BackupRun.__init__ making the new Defaultable its own parent.
BackupRun_init_defaultable_selfparent(parent, k) ==
    LET o == PossibleOptions[k]
        d == Defaultable_init(o, "Option")
    IN IF parent # 0
       THEN [d EXCEPT !.parent = Len(heap) + 2 + k, !.defaulting = TRUE]
       ELSE d

\* The Defaultable __init__ builds for the k-th option: it holds the new
\* Option and, under a parent that has the property, defaults to the parent's
\* Defaultable.
BackupRun_init_defaultable(parent, k) ==
    LET o == PossibleOptions[k]
        propertyname == PropertyNames[k]
        d == Defaultable_init(o, "Option")
    IN IF parent # 0 /\ propertyname \in DOMAIN runs[parent].defaultables
       THEN [d EXCEPT !.parent = runs[parent].defaultables[propertyname],
                      !.defaulting = TRUE]
       ELSE d

\* The _defaultables dict after the assignments
\* self._defaultables[propertyname] = d of the loops, the k-th Defaultable
\* being base + k: a later assignment to a key replaces an earlier one.
BackupRun_init_dict(base) ==
    [key \in {PropertyNames[k] : k \in 1..Len(PropertyNames)} |->
        base + CHOOSE k \in 1..Len(PropertyNames) :
                  /\ PropertyNames[k] = key
                  /\ \A j \in (k + 1)..Len(PropertyNames) : PropertyNames[j] # key]

Reverse(seq) == [i \in 1..Len(seq) |-> seq[Len(seq) + 1 - i]]

\* The orders in which a dict may hand out its entries: the order is the
\* implementation's, and the same for every dict of one process.
DictOrders == {PropertyNames, Reverse(PropertyNames)}

Runs == 1..Len(runs)

\* The _source Defaultable __init__ builds.
BackupRun_init_source(parent) ==
    IF parent # 0
    THEN Defaultable_init(PyRef(runs[parent].source), "Source")
    ELSE Defaultable_init(Place_init("Source", PyNone, PyNone, PyNone), "Source")

\* The _destination Defaultable __init__ builds.
BackupRun_init_destination(parent) ==
    IF parent # 0
    THEN Defaultable_init(PyRef(runs[parent].destination), "Destination")
    ELSE Defaultable_init(Place_init("Destination", PyNone, PyNone, PyNone),
                          "Destination")

\* BackupRun.__init__(parent) with "self._filters = parent.filters" in place
\* of the deep copy: the new run points at the parent's FilterSet object.
BackupRun_init_sharedfilters(parent) ==
    LET base == Len(heap) + 2
        source == BackupRun_init_source(parent)
        destination == BackupRun_init_destination(parent)
    IN /\ heap' = heap \o <<source, destination>>
                   \o [k \in 1..Len(PossibleItems) |->
                          BackupRun_init_defaultable(parent, k)]
       /\ fsets' = IF parent # 0 THEN fsets ELSE Append(fsets, <<>>)
       /\ runs' = Append(runs,
              [parent |-> parent,
               source |-> Len(heap) + 1,
               destination |-> Len(heap) + 2,
               filters |-> IF parent # 0 THEN runs[parent].filters
                           ELSE Len(fsets) + 1,
               defaultables |-> BackupRun_init_dict(base)])

\* BackupRun.__init__(parent); parent = 0 stands for None.
BackupRun_init(parent) ==
    LET base == Len(heap) + 2
        source == BackupRun_init_source(parent)
        destination == BackupRun_init_destination(parent)
        filters == IF parent # 0 THEN fsets[runs[parent].filters] ELSE <<>>
    IN /\ heap' = heap \o <<source, destination>>
                   \o [k \in 1..Len(PossibleItems) |->
                          BackupRun_init_defaultable(parent, k)]
       /\ fsets' = Append(fsets, filters)
       /\ runs' = Append(runs,
              [parent |-> parent,
               source |-> Len(heap) + 1,
               destination |-> Len(heap) + 2,
               filters |-> Len(fsets) + 1,
               defaultables |-> BackupRun_init_dict(base)])

\* BackupRun.__getattr__(name)
BackupRun_getattr(self, name) ==
    IF name \in DOMAIN runs[self].defaultables
    THEN Returned("getattr", self,
                  Defaultable_getvalue(heap, runs[self].defaultables[name]))
    ELSE Raised("getattr", self, "AttributeError")

\* BackupRun.__setattr__ without "defaulting = False": the assignment goes
\* to the Option the value property hands out, the parent's while inheriting.
BackupRun_setattr_heap_inheriting(self, name, value) ==
    LET d == runs[self].defaultables[name]
        holder == Defaultable_holder(heap, d)
        o == heap[holder].value.v
    IN IF Option_setvalue_raises(o, value)
       THEN [heap |-> heap, exc |-> "TypeError"]
       ELSE [heap |-> [heap EXCEPT ![holder].value.v = Option_setvalue(o, value)],
             exc |-> ""]

\* BackupRun.__setattr__(name, value) for a name in _defaultables: the heap
\* after "defaulting = False" and after the assignment to value.value, which
\* goes to the Option that the Defaultable's value property hands out.
BackupRun_setattr_heap(self, name, value) ==
    LET d == runs[self].defaultables[name]
        h1 == [heap EXCEPT ![d].defaulting = FALSE]
        holder == Defaultable_holder(h1, d)
        o == h1[holder].value.v
    IN IF Option_setvalue_raises(o, value)
       THEN [heap |-> h1, exc |-> "TypeError"]
       ELSE [heap |-> [h1 EXCEPT ![holder].value.v = Option_setvalue(o, value)],
             exc |-> ""]

\* BackupRun.__delattr__ taking the first branch whether or not there is a
\* parent: the Option that the value property hands out is reset, the
\* parent's while inheriting.
BackupRun_delattr_heap_reset(self, name) ==
    LET d == runs[self].defaultables[name]
        holder == Defaultable_holder(heap, d)
    IN [heap EXCEPT ![holder].value.v = Option_default(heap[holder].value.v)]

\* BackupRun.__delattr__(name) for a name in _defaultables.
BackupRun_delattr_heap(self, name) ==
    LET d == runs[self].defaultables[name]
    IN IF heap[d].parent = 0
       THEN LET holder == Defaultable_holder(heap, d) IN
            [heap EXCEPT ![holder].value.v = Option_default(heap[holder].value.v)]
       ELSE [heap EXCEPT ![d].defaulting = TRUE]

\* BackupRun._setsource / _setdestination on the Defaultable d whose values
\* have to be instances of cls.
BackupRun_setplace_heap(d, cls, value) ==
    IF ~PyIsInstance(value, cls)
    THEN [heap |-> heap, exc |-> "TypeError"]
    ELSE LET h1 == [heap EXCEPT ![d].defaulting = FALSE] IN
         IF Defaultable_setvalue_raises(h1, d, value)
         THEN [heap |-> h1, exc |-> "TypeError"]
         ELSE [heap |-> Defaultable_setvalue(h1, d, value), exc |-> ""]

\* The tokens of the options, in the order the dict hands them out.
RECURSIVE BackupRun_optionparams(_, _)
BackupRun_optionparams(self, k) ==
    IF k > Len(optOrder) THEN <<>>
    ELSE Option_getparams(
             Defaultable_getvalue(heap, runs[self].defaultables[optOrder[k]]).v)
         \o BackupRun_optionparams(self, k + 1)

\* BackupRun._getsource: the value of the _source Defaultable.
BackupRun_getsource(self) == Defaultable_getvalue(heap, runs[self].source)

\* BackupRun._getdestination: the _destination Defaultable itself.
BackupRun_getdestination(self) == PyRef(runs[self].destination)

\* str(x) for a Place (Place.__repr__) and for a Defaultable
\* (Defaultable.__str__, the __str__ of its value).
PlaceToStr(x) ==
    IF x.t = "Defaultable"
    THEN Place_getstring(Defaultable_getvalue(heap, x.v).v)
    ELSE Place_getstring(x.v)

\* BackupRun._getcmdline appending the destination before the source.
BackupRun_getcmdline_swapped(self) ==
    LET source == PlaceToStr(BackupRun_getsource(self))
        destination == PlaceToStr(BackupRun_getdestination(self))
    IN IF source.exc # "" THEN Raised("cmdline", self, source.exc)
       ELSE IF destination.exc # "" THEN Raised("cmdline", self, destination.exc)
       ELSE Returned("cmdline", self,
                PyTuple(<<"rdiff-backup">>
                        \o BackupRun_optionparams(self, 1)
                        \o FilterSet_getparams(fsets[runs[self].filters])
                        \o <<destination.val>>
                        \o <<source.val>>))

\* BackupRun._getcmdline
BackupRun_getcmdline(self) ==
    LET source == PlaceToStr(BackupRun_getsource(self))
        destination == PlaceToStr(BackupRun_getdestination(self))
    IN IF source.exc # "" THEN Raised("cmdline", self, source.exc)
       ELSE IF destination.exc # "" THEN Raised("cmdline", self, destination.exc)
       ELSE Returned("cmdline", self,
                PyTuple(<<"rdiff-backup">>
                        \o BackupRun_optionparams(self, 1)
                        \o FilterSet_getparams(fsets[runs[self].filters])
                        \o <<source.val>>
                        \o <<destination.val>>))

\* The attribute names, the values and the places the calls are made with.
TestNames == {"force", "acls", "carbonfile", "tempdir", "verbosity", "noacls"}
OptionInputs == {PyBool(TRUE), PyBool(FALSE), PyNone, PyInt(5), PyStr("a")}
SourceInputs ==
    {Place_init("Source", PyStr("/"), PyStr("a.example.de"), PyNone),
     Place_init("Source", PyStr("/srv"), PyNone, PyNone)}
DestinationInputs ==
    {Place_init("Destination", PyStr("/var/backup/a"), PyNone, PyNone),
     Place_init("Destination", PyNone, PyStr("b.example.de"), PyStr("bak"))}
FilterArgs ==
    {<<PyTuple(<<PyFilter("ExcludeSockets", PyNone),
                 PyTuple(<<PyFilter("MaxFileSize", PyInt(5))>>)>>),
       PyFilter("Include", PyStr("/etc"))>>}

\* BackupRun(parent)
RunNew(parent) ==
    /\ Len(runs) < MaxRuns
    /\ BackupRun_init(parent)
    /\ ret' = Returned("BackupRun", 0, PyNone)
    /\ UNCHANGED <<wasSet, overridden, optOrder, attr, nops>>
    /\ UNCHANGED <<lockVars, obj>>

\* run.name = value
RunSetAttr(self, name, value) ==
    /\ nops < MaxOps
    /\ nops' = nops + 1
    /\ IF name \in DOMAIN runs[self].defaultables
       THEN LET res == BackupRun_setattr_heap(self, name, value) IN
            /\ heap' = res.heap
            /\ overridden' = IF res.exc # "" THEN overridden
                             ELSE overridden \cup {runs[self].defaultables[name]}
            /\ ret' = IF res.exc # "" THEN Raised("setattr", self, res.exc)
                      ELSE Returned("setattr", self, PyNone)
       ELSE /\ ret' = Raised("setattr", self, "AttributeError")
            /\ UNCHANGED <<heap, overridden>>
    /\ UNCHANGED <<wasSet, fsets, runs, optOrder, attr>>
    /\ UNCHANGED <<lockVars, obj>>

\* del run.name
RunDelAttr(self, name) ==
    /\ nops < MaxOps
    /\ nops' = nops + 1
    /\ IF name \in DOMAIN runs[self].defaultables
       THEN /\ heap' = BackupRun_delattr_heap(self, name)
            /\ overridden' = overridden \ {runs[self].defaultables[name]}
            /\ ret' = Returned("delattr", self, PyNone)
       ELSE /\ ret' = Raised("delattr", self, "AttributeError")
            /\ UNCHANGED <<heap, overridden>>
    /\ UNCHANGED <<wasSet, fsets, runs, optOrder, attr>>
    /\ UNCHANGED <<lockVars, obj>>

\* run.source = value
RunSetSource(self, value) ==
    /\ nops < MaxOps
    /\ nops' = nops + 1
    /\ LET res == BackupRun_setplace_heap(runs[self].source, "Source", value) IN
       /\ heap' = res.heap
       /\ overridden' = IF res.exc # "" THEN overridden
                        ELSE overridden \cup {runs[self].source}
       /\ ret' = IF res.exc # "" THEN Raised("setsource", self, res.exc)
                 ELSE Returned("setsource", self, PyNone)
    /\ UNCHANGED <<wasSet, fsets, runs, optOrder, attr>>
    /\ UNCHANGED <<lockVars, obj>>

\* run.destination = value
RunSetDestination(self, value) ==
    /\ nops < MaxOps
    /\ nops' = nops + 1
    /\ LET res == BackupRun_setplace_heap(runs[self].destination,
                                          "Destination", value) IN
       /\ heap' = res.heap
       /\ overridden' = IF res.exc # "" THEN overridden
                        ELSE overridden \cup {runs[self].destination}
       /\ ret' = IF res.exc # "" THEN Raised("setdestination", self, res.exc)
                 ELSE Returned("setdestination", self, PyNone)
    /\ UNCHANGED <<wasSet, fsets, runs, optOrder, attr>>
    /\ UNCHANGED <<lockVars, obj>>

\* run.filters = FilterSet(*args)
RunSetFilters(self, args) ==
    /\ nops < MaxOps
    /\ nops' = nops + 1
    /\ LET res == FilterSet_init(args) IN
       IF res.exc # ""
       THEN /\ ret' = Raised("setfilters", self, res.exc)
            /\ UNCHANGED <<fsets, runs>>
       ELSE /\ fsets' = Append(fsets, res.filters)
            /\ runs' = [runs EXCEPT ![self].filters = Len(fsets) + 1]
            /\ ret' = Returned("setfilters", self, PyNone)
    /\ UNCHANGED <<heap, wasSet, overridden, optOrder, attr>>
    /\ UNCHANGED <<lockVars, obj>>

\* run.filters.extend(*args)
RunExtendFilters(self, args) ==
    /\ nops < MaxOps
    /\ nops' = nops + 1
    /\ LET res == FilterSet_extend(fsets[runs[self].filters], args) IN
       /\ fsets' = [fsets EXCEPT ![runs[self].filters] = res.filters]
       /\ ret' = IF res.exc # "" THEN Raised("extend", self, res.exc)
                 ELSE Returned("extend", self, PyNone)
    /\ UNCHANGED <<heap, wasSet, overridden, runs, optOrder, attr>>
    /\ UNCHANGED <<lockVars, obj>>

\* reading run.name
RunGetAttr(self, name) ==
    /\ nops < MaxOps
    /\ nops' = nops + 1
    /\ ret' = BackupRun_getattr(self, name)
    /\ UNCHANGED <<heap, wasSet, overridden, fsets, runs, optOrder, attr>>
    /\ UNCHANGED <<lockVars, obj>>

\* reading run.cmdline
RunCmdline(self) ==
    /\ nops < MaxOps
    /\ nops' = nops + 1
    /\ ret' = BackupRun_getcmdline(self)
    /\ UNCHANGED <<heap, wasSet, overridden, fsets, runs, optOrder, attr>>
    /\ UNCHANGED <<lockVars, obj>>

RunInit ==
    /\ heap = <<>>
    /\ wasSet = {}
    /\ overridden = {}
    /\ fsets = <<>>
    /\ runs = <<>>
    /\ optOrder \in DictOrders
    /\ attr \in TestNames
    /\ nops = 0
    /\ NoLockers
    /\ obj = PyNone
    /\ ret = NoCall

RunNext ==
    \/ \E parent \in (IF runs = <<>> THEN {0} ELSE Runs) : RunNew(parent)
    \/ \E r \in Runs, value \in OptionInputs : RunSetAttr(r, attr, value)
    \/ \E r \in Runs : RunDelAttr(r, attr)
    \/ \E r \in Runs, value \in SourceInputs : RunSetSource(r, value)
    \/ \E r \in Runs, value \in DestinationInputs : RunSetDestination(r, value)
    \/ \E r \in Runs, args \in FilterArgs : RunSetFilters(r, args)
    \/ \E r \in Runs, args \in FilterArgs : RunExtendFilters(r, args)
    \/ \E r \in Runs : RunGetAttr(r, attr)
    \/ \E r \in Runs : RunCmdline(r)

SpecRun == RunInit /\ [][RunNext]_vars

\* The heap of a template run that was built without a parent and then given
\* a source and a destination, as twohosts.example.py prepares a run before
\* its command line is rendered.
RenderHeap ==
    LET h0 == <<BackupRun_init_source(0), BackupRun_init_destination(0)>>
                  \o [k \in 1..Len(PossibleItems) |->
                         BackupRun_init_defaultable(0, k)]
        h1 == Defaultable_setvalue([h0 EXCEPT ![1].defaulting = FALSE], 1,
                  Place_init("Source", PyStr("/"), PyStr("a.example.de"), PyNone))
    IN Defaultable_setvalue([h1 EXCEPT ![2].defaulting = FALSE], 2,
           Place_init("Destination", PyStr("/var/backup/a"), PyNone, PyNone))

RenderInit ==
    /\ heap = RenderHeap
    /\ wasSet = {}
    /\ overridden = {1, 2}
    /\ fsets = << <<>> >>
    /\ runs = <<[parent |-> 0, source |-> 1, destination |-> 2, filters |-> 1,
                 defaultables |-> BackupRun_init_dict(2)]>>
    /\ optOrder \in DictOrders
    /\ attr \in TestNames
    /\ nops = 0
    /\ NoLockers
    /\ obj = PyNone
    /\ ret = Returned("setdestination", 1, PyNone)

SpecRender == RenderInit /\ [][RunNext]_vars

(***************************************************************************)
(* Properties of the job descriptors                                       *)
(***************************************************************************)
\* The Defaultable of the attribute under test in a run, when it has one.
KnownAttr == attr \in {PropertyNames[k] : k \in 1..Len(PropertyNames)}
AttrNode(r) == runs[r].defaultables[attr]

\* The Defaultables of a run: source, destination and one per option.
RunNodes(r) ==
    {runs[r].source, runs[r].destination}
        \cup {runs[r].defaultables[key] : key \in DOMAIN runs[r].defaultables}

\* The step is the call op on run r (every call counts in nops).
Called(op, r) == nops' = nops + 1 /\ ret'.op = op /\ ret'.who = r

\* The step is a modifying call on a run other than r.
OtherRunCall(r) ==
    /\ nops' = nops + 1
    /\ ret'.who # r
    /\ ret'.op \in {"setattr", "delattr", "setsource", "setdestination",
                    "setfilters"}

\* C2: an assignment to an option of a run, or to its source or destination
\* node, leaves the node not inheriting, whatever the value; and while a
\* node is not inheriting, calls on the other runs (its parent among them)
\* do not change the value read through it.
C2_SetStopsInheriting ==
    [][\A r \in Runs :
        /\ (KnownAttr /\ Called("setattr", r))
              => ~heap'[AttrNode(r)].defaulting
        /\ (Called("setsource", r) /\ ret'.exc = "")
              => ~heap'[runs[r].source].defaulting
        /\ (Called("setdestination", r) /\ ret'.exc = "")
              => ~heap'[runs[r].destination].defaulting
        /\ OtherRunCall(r) =>
              \A n \in RunNodes(r) :
                  ~heap[n].defaulting =>
                      /\ ~heap'[n].defaulting
                      /\ Defaultable_getvalue(heap', n)
                            = Defaultable_getvalue(heap, n)
      ]_vars

\* C2 witness: a child was given the value its parent had at the time, the
\* parent's value was changed afterwards, and the child still reads its own.
C2_Witness ==
    /\ KnownAttr
    /\ ret.op = "setattr"
    /\ \E r \in Runs :
          /\ runs[r].parent # 0
          /\ AttrNode(r) \in overridden
          /\ AttrNode(runs[r].parent) \in overridden
          /\ ~heap[AttrNode(r)].defaulting
          /\ heap[AttrNode(r)].value.v.value
                = Option_default_value(heap[AttrNode(r)].value.v)
          /\ Defaultable_getvalue(heap, AttrNode(r))
                # Defaultable_getvalue(heap, AttrNode(runs[r].parent))

\* The declared type (or boolean default) of the attribute under test.
DeclaredType ==
    PossibleItems[CHOOSE k \in 1..Len(PropertyNames) : PropertyNames[k] = attr].type_

\* The type-neutral value of an option: absent for string, integer and
\* ternary, the declared default for a boolean.
NeutralValue(type_) ==
    IF type_ \in {PyType("str"), PyType("int"), PyType("Ternary")}
    THEN PyNone
    ELSE type_

\* C3: deleting an option of a run that has a parent makes the value read
\* through it the parent's current one; deleting an option of a run without
\* a parent restores the type-neutral value, which renders no tokens.
C3_DeleteRestores ==
    [][\A r \in Runs :
        (KnownAttr /\ Called("delattr", r)) =>
            IF runs[r].parent # 0
            THEN Defaultable_getvalue(heap', AttrNode(r))
                    = Defaultable_getvalue(heap', AttrNode(runs[r].parent))
            ELSE LET o == Defaultable_getvalue(heap', AttrNode(r)).v IN
                 /\ o.value = NeutralValue(DeclaredType)
                 /\ Option_getparams(o) = <<>>
      ]_vars

\* C3 witness: a child that was given a value of its own is deleted after
\* its parent was changed, and reads the parent's changed value.
C3_Witness ==
    /\ KnownAttr
    /\ ret.op = "delattr"
    /\ ret.who \in Runs
    /\ runs[ret.who].parent # 0
    /\ LET own == heap[AttrNode(ret.who)].value.v
           up == Defaultable_getvalue(heap, AttrNode(runs[ret.who].parent)).v
       IN /\ own.value # NeutralValue(DeclaredType)
          /\ up.value # NeutralValue(DeclaredType)
          /\ own.value # up.value
          /\ Defaultable_getvalue(heap, AttrNode(ret.who)).v = up

\* The pairs <<child's Defaultable, parent's Defaultable>> of a run r that
\* was built with a parent: source, destination and every option.
ParentPairs(r) ==
    LET q == runs[r].parent IN
    {<<runs[r].source, runs[q].source>>,
     <<runs[r].destination, runs[q].destination>>}
        \cup {<<runs[r].defaultables[key], runs[q].defaultables[key]>> :
                 key \in DOMAIN runs[r].defaultables}

\* C4: whatever a run built with a parent has not been assigned itself reads
\* as the parent's current value.
C4_ChildTracksParent ==
    \A r \in Runs :
        runs[r].parent # 0 =>
            \A pair \in ParentPairs(r) :
                pair[1] \notin overridden =>
                    Defaultable_getvalue(heap, pair[1])
                        = Defaultable_getvalue(heap, pair[2])

\* C5: a new run has one entry per recognized option, no two options under
\* one property name; built with a parent, every entry, the source and the
\* destination point to the parent's and start inheriting. The mapping and
\* the parent links of the existing runs stay as they are.
C5_OptionMapping ==
    [][/\ \A r \in Runs :
             /\ runs'[r].defaultables = runs[r].defaultables
             /\ \A n \in RunNodes(r) : heap'[n].parent = heap[n].parent
       /\ Len(runs') = Len(runs) + 1 =>
             LET r == Len(runs')
                 d == runs'[r].defaultables
                 parent == runs'[r].parent
             IN /\ Cardinality(DOMAIN d) = Len(PossibleItems)
                /\ \A k \in 1..Len(PossibleItems) :
                      Cardinality({key \in DOMAIN d :
                          heap'[d[key]].value.v.name = PossibleItems[k].name}) = 1
                /\ parent # 0 =>
                      /\ \A key \in DOMAIN d :
                            /\ heap'[d[key]].parent = runs[parent].defaultables[key]
                            /\ heap'[d[key]].defaulting
                      /\ heap'[runs'[r].source].parent = runs[parent].source
                      /\ heap'[runs'[r].source].defaulting
                      /\ heap'[runs'[r].destination].parent
                            = runs[parent].destination
                      /\ heap'[runs'[r].destination].defaulting
      ]_vars

\* C5 witness: a run has just been built from a parent that was modified
\* before, and all its Defaultables inherit.
C5_Witness ==
    /\ ret.op = "BackupRun"
    /\ nops > 0
    /\ Len(runs) > 1
    /\ runs[Len(runs)].parent # 0
    /\ \A n \in RunNodes(Len(runs)) : heap[n].defaulting /\ heap[n].parent # 0

\* The concatenation of a sequence of sequences.
RECURSIVE Flatten(_)
Flatten(seqs) ==
    IF seqs = <<>> THEN <<>>
    ELSE Flatten(SubSeq(seqs, 1, Len(seqs) - 1)) \o seqs[Len(seqs)]

\* The tokens a successful rendering of run r has to consist of.
ExpectedCmdline(r) ==
    LET options == Flatten([k \in 1..Len(optOrder) |->
                      Option_getparams(
                          Defaultable_getvalue(heap,
                              runs[r].defaultables[optOrder[k]]).v)])
        filters == Flatten([k \in 1..Len(fsets[runs[r].filters]) |->
                      Filter_getparams(fsets[runs[r].filters][k].v)])
        source == Place_getstring(Defaultable_getvalue(heap, runs[r].source).v)
        destination ==
            Place_getstring(Defaultable_getvalue(heap, runs[r].destination).v)
    IN <<"rdiff-backup">> \o options \o filters
           \o <<source.val, destination.val>>

\* C6: a rendered command line is the tool name, the tokens of every
\* option's effective value, the filter tokens, then the source and the
\* destination rendering; rendering changes no state, and rendering again
\* with no call in between gives the same list.
C6_CommandLine ==
    [][\A r \in Runs :
        Called("cmdline", r) =>
            /\ UNCHANGED <<heap, fsets, runs, optOrder>>
            /\ ret'.exc = "" => ret'.val.v = ExpectedCmdline(r)
            /\ (ret.op = "cmdline" /\ ret.who = r) => ret' = ret
      ]_vars

\* C6 witness: a child that inherits a changed option and the filters of its
\* parent was rendered twice in a row.
C6_Witness ==
    /\ ret.op = "cmdline"
    /\ ret.exc = ""
    /\ ret.who \in Runs
    /\ runs[ret.who].parent # 0
    /\ runs[ret.who].filters # runs[runs[ret.who].parent].filters
    /\ fsets[runs[ret.who].filters] # <<>>
    /\ KnownAttr
    /\ heap[AttrNode(ret.who)].defaulting
    /\ Option_getparams(Defaultable_getvalue(heap, AttrNode(ret.who)).v) # <<>>

(***************************************************************************)
(* Locker. Several processes share one filesystem; every process runs one  *)
(* call at a time. A call that makes a system call takes two steps, the    *)
(* system call and then the rest of the method, and the steps of the       *)
(* processes interleave. Locker.__del__ is left out: a Locker that has     *)
(* locked once stays referenced by its atexit hook, and unlockIfLocked on  *)
(* one that never locked does nothing.                                     *)
(***************************************************************************)
MaxLockers == 2
NumProcs == 2
MaxHooks == 2

Procs == 1..NumProcs
Lockers == 1..Len(lockers)

\* Strings that are looked into are sequences of characters.
PyChars(chars) == [t |-> "str", v |-> chars]

\* tempfile.gettempdir()
GetTempDir == <<"/", "t", "m", "p">>

\* The default of __init__'s directory parameter.
DefaultDirectory ==
    <<"w", "a", "r", "d", "r", "o", "b", "e", ".", "l", "o", "c", "k", ".", "d">>

\* os.path.isabs
os_path_isabs(s) == Len(s) > 0 /\ s[1] = "/"

\* os.path.join of two components
os_path_join(a, b) ==
    IF os_path_isabs(b) THEN b
    ELSE IF a = <<>> \/ a[Len(a)] = "/" THEN a \o b
    ELSE a \o <<"/">> \o b

\* Locker._setpath raises TypeError
Locker_setpath_raises(value) == value.t # "str"

\* Locker._setpath: the _path it stores.
Locker_setpath(value) ==
    IF os_path_isabs(value.v) THEN value.v
    ELSE os_path_join(GetTempDir, value.v)

\* The call a process is in the middle of; Idle between calls.
Idle == [op |-> "", self |-> 0, at |-> ""]
InCall(op, self, at) == [op |-> op, self |-> self, at |-> at]

\* What a method did up to the point where the process can be interleaved:
\* the directories, where the process stands and what the call returned, if
\* it is over.
Outcome(d, pc, r) == [dirs |-> d, pc |-> pc, ret |-> r]

\* Locker._lock seeing no error from os.mkdir whether the directory exists
\* or not.
Locker__lock_raises_never(self) == FALSE

\* os.mkdir(self.path) in Locker._lock fails with EEXIST.
Locker__lock_raises(self) == lockers[self].path \in dirs

\* Locker._lock taking an existing directory for a lock it acquired.
Locker__lock_takeover(op, self) ==
    Outcome(dirs \cup {lockers[self].path}, InCall(op, self, "locked"), ret)

\* The filesystem as far as it can make os.mkdir and os.rmdir fail for other
\* reasons than the lock itself: obj is PyNone where nothing of the kind
\* happens, and otherwise tells whether the filesystem refuses changes
\* (EACCES, EROFS) and which lock directories have something in them.
FsFaulty == obj.t = "filesystem"
FsRefuses == FsFaulty /\ obj.v.refuses
FsNotEmpty(path) == FsFaulty /\ path \in obj.v.full

\* os.mkdir(self.path) in Locker._lock fails with another errno than EEXIST.
Locker__lock_oserror(self) == lockers[self].path \notin dirs /\ FsRefuses

\* Locker._lock going on after an OSError of os.mkdir as if the directory
\* had been created.
Locker__lock_reraise_swallowed(op, self) ==
    Outcome(dirs, InCall(op, self, "locked"), ret)

\* Locker._lock: "raise e" for an OSError that is not EEXIST.
Locker__lock_reraise(op, self) ==
    Outcome(dirs, Idle, Raised(op, self, "OSError"))

\* Locker._lock up to the return of os.mkdir.
Locker__lock(op, self) ==
    IF Locker__lock_raises(self)
    THEN Outcome(dirs, Idle, Raised(op, self, "AcquireError"))
    ELSE IF Locker__lock_oserror(self)
    THEN Locker__lock_reraise(op, self)
    ELSE Outcome(dirs \cup {lockers[self].path}, InCall(op, self, "locked"), ret)

\* os.rmdir(self.path) in Locker._unlock fails: the directory is not there
\* (ENOENT), is not empty (ENOTEMPTY) or may not be removed.
Locker__unlock_raises(self) ==
    \/ lockers[self].path \notin dirs
    \/ FsNotEmpty(lockers[self].path)
    \/ FsRefuses

\* Locker._unlock going on to "_locked = False" with the directory left in
\* place.
Locker__unlock_keepdir(op, self) ==
    IF Locker__unlock_raises(self)
    THEN Outcome(dirs, Idle, Raised(op, self, "OSError"))
    ELSE Outcome(dirs, InCall(op, self, "unlocked"), ret)

\* Locker._unlock up to the return of os.rmdir.
Locker__unlock(op, self) ==
    IF Locker__unlock_raises(self)
    THEN Outcome(dirs, Idle, Raised(op, self, "OSError"))
    ELSE Outcome(dirs \ {lockers[self].path}, InCall(op, self, "unlocked"), ret)

\* Locker.lock
Locker_lock(self) ==
    IF lockers[self].locked
    THEN Outcome(dirs, Idle, Raised("lock", self, "StateError"))
    ELSE Locker__lock("lock", self)

\* Locker.lockIfUnlocked
Locker_lockIfUnlocked(self) ==
    IF lockers[self].locked
    THEN Outcome(dirs, Idle, Returned("lockIfUnlocked", self, PyBool(TRUE)))
    ELSE Locker__lock("lockIfUnlocked", self)

\* Locker.unlock without the check of self.locked.
Locker_unlock_unchecked(self) == Locker__unlock("unlock", self)

\* Locker.unlock
Locker_unlock(self) ==
    IF ~lockers[self].locked
    THEN Outcome(dirs, Idle, Raised("unlock", self, "StateError"))
    ELSE Locker__unlock("unlock", self)

\* Locker.unlockIfLocked going on to _unlock whether locked or not.
Locker_unlockIfLocked_always(self) == Locker__unlock("unlockIfLocked", self)

\* Locker.unlockIfLocked: it has no return statement.
Locker_unlockIfLocked(self) ==
    IF lockers[self].locked
    THEN Locker__unlock("unlockIfLocked", self)
    ELSE Outcome(dirs, Idle, Returned("unlockIfLocked", self, PyNone))

Owner(self) == lockers[self].proc
Ready(p) == procs[p].status = "running" /\ procs[p].pc = Idle
Live(self) == procs[Owner(self)].status \in {"running", "exiting"}

\* A call that may register one more atexit hook is made only while the
\* process has room for it.
HookRoom(p) == Len(procs[p].hooks) < MaxHooks

\* The state after the first step of a call of process p with outcome o.
Proceed(p, o) ==
    /\ dirs' = o.dirs
    /\ procs' = [procs EXCEPT ![p].pc = o.pc]
    /\ ret' = o.ret
    /\ UNCHANGED lockers

\* Locker(locknow, directory) in process p
LockerNew(p, locknow, directory) ==
    /\ Ready(p)
    /\ Len(lockers) < MaxLockers
    /\ locknow => HookRoom(p)
    /\ IF Locker_setpath_raises(directory)
       THEN /\ ret' = Raised("Locker", 0, "TypeError")
            /\ UNCHANGED lockVars
       ELSE LET self == Len(lockers) + 1
                new == [proc |-> p, path |-> Locker_setpath(directory),
                        locked |-> FALSE]
            IN IF ~locknow
               THEN /\ lockers' = Append(lockers, new)
                    /\ ret' = Returned("Locker", self, PyNone)
                    /\ UNCHANGED <<dirs, procs>>
               ELSE IF new.path \in dirs
               THEN /\ ret' = Raised("Locker", 0, "AcquireError")
                    /\ UNCHANGED lockVars
               ELSE IF FsRefuses
               THEN /\ ret' = Raised("Locker", 0, "OSError")
                    /\ UNCHANGED lockVars
               ELSE /\ lockers' = Append(lockers, new)
                    /\ dirs' = dirs \cup {new.path}
                    /\ procs' = [procs EXCEPT
                                    ![p].pc = InCall("Locker", self, "locked")]
                    /\ UNCHANGED ret
    /\ UNCHANGED <<heap, wasSet, runVars>>

\* self.lock()
LockerLock(self) ==
    /\ Ready(Owner(self))
    /\ lockers[self].locked \/ HookRoom(Owner(self))
    /\ Proceed(Owner(self), Locker_lock(self))
    /\ UNCHANGED <<heap, wasSet, runVars>>

\* self.lockIfUnlocked()
LockerLockIfUnlocked(self) ==
    /\ Ready(Owner(self))
    /\ lockers[self].locked \/ HookRoom(Owner(self))
    /\ Proceed(Owner(self), Locker_lockIfUnlocked(self))
    /\ UNCHANGED <<heap, wasSet, runVars>>

\* self.unlock()
LockerUnlock(self) ==
    /\ Ready(Owner(self))
    /\ Proceed(Owner(self), Locker_unlock(self))
    /\ UNCHANGED <<heap, wasSet, runVars>>

\* self.unlockIfLocked()
LockerUnlockIfLocked(self) ==
    /\ Ready(Owner(self))
    /\ Proceed(Owner(self), Locker_unlockIfLocked(self))
    /\ UNCHANGED <<heap, wasSet, runVars>>

\* The rest of Locker._lock after os.mkdir has returned: the flag, the
\* atexit hook and the return value.
LockerLocked(p) ==
    /\ procs[p].status = "running"
    /\ procs[p].pc.at = "locked"
    /\ LET self == procs[p].pc.self
           op == procs[p].pc.op
       IN /\ lockers' = [lockers EXCEPT ![self].locked = TRUE]
          /\ procs' = [procs EXCEPT ![p].pc = Idle,
                                    ![p].hooks = Append(@, self)]
          /\ ret' = IF op = "Locker" THEN Returned(op, self, PyNone)
                    ELSE Returned(op, self, PyBool(TRUE))
    /\ UNCHANGED <<dirs, heap, wasSet, runVars>>

\* The rest of Locker._unlock after os.rmdir has returned: the flag and the
\* return value, which unlock passes on and unlockIfLocked drops.
LockerUnlocked(p) ==
    /\ procs[p].status \in {"running", "exiting"}
    /\ procs[p].pc.at = "unlocked"
    /\ LET self == procs[p].pc.self
           op == procs[p].pc.op
       IN /\ lockers' = [lockers EXCEPT ![self].locked = FALSE]
          /\ procs' = [procs EXCEPT ![p].pc = Idle]
          /\ ret' = IF op = "unlock" THEN Returned(op, self, PyBool(TRUE))
                    ELSE Returned(op, self, PyNone)
    /\ UNCHANGED <<dirs, heap, wasSet, runVars>>

\* The process ends normally: the atexit hooks are going to run, last
\* registered first.
ProcExit(p) ==
    /\ Ready(p)
    /\ procs' = [procs EXCEPT ![p].status = "exiting",
                              ![p].pending = Reverse(procs[p].hooks)]
    /\ UNCHANGED <<lockers, dirs, ret, heap, wasSet, runVars>>

\* The next atexit hook, the unlockIfLocked of the Locker it was registered
\* by.
ProcExitHook(p) ==
    /\ procs[p].status = "exiting"
    /\ procs[p].pc = Idle
    /\ procs[p].pending # <<>>
    /\ LET o == Locker_unlockIfLocked(Head(procs[p].pending)) IN
       /\ dirs' = o.dirs
       /\ procs' = [procs EXCEPT ![p].pc = o.pc, ![p].pending = Tail(@)]
       /\ ret' = o.ret
    /\ UNCHANGED <<lockers, heap, wasSet, runVars>>

\* Process p is over: its memory is gone, and with it the call it was in,
\* its hooks and the flags of its Lockers. The filesystem stays as it is.
ProcGone(p, status) ==
    /\ procs' = [procs EXCEPT ![p] = [status |-> status, pc |-> Idle,
                                      hooks |-> <<>>, pending |-> <<>>]]
    /\ lockers' = [self \in Lockers |->
                      IF lockers[self].proc = p
                      THEN [lockers[self] EXCEPT !.locked = FALSE]
                      ELSE lockers[self]]
    /\ UNCHANGED <<dirs, ret>>

\* All hooks have run: the process is gone.
ProcExited(p) ==
    /\ procs[p].status = "exiting"
    /\ procs[p].pc = Idle
    /\ procs[p].pending = <<>>
    /\ ProcGone(p, "exited")
    /\ UNCHANGED <<heap, wasSet, runVars>>

\* The process is killed, wherever it stands; no hook runs.
ProcCrash(p) ==
    /\ procs[p].status \in {"running", "exiting"}
    /\ ProcGone(p, "crashed")
    /\ UNCHANGED <<heap, wasSet, runVars>>

\* The directory arguments the Lockers are built with: the default, the same
\* directory given as an absolute path, another directory, and no string.
DirectoryInputs ==
    {PyChars(DefaultDirectory),
     PyChars(GetTempDir \o <<"/">> \o DefaultDirectory),
     PyChars(<<"/", "l">>),
     PyNone}

LockInit ==
    /\ heap = <<>>
    /\ wasSet = {}
    /\ overridden = {}
    /\ fsets = <<>>
    /\ runs = <<>>
    /\ optOrder = <<>>
    /\ attr = ""
    /\ nops = 0
    /\ lockers = <<>>
    /\ dirs = {}
    /\ procs = [p \in Procs |-> [status |-> "running", pc |-> Idle,
                                 hooks |-> <<>>, pending |-> <<>>]]
    /\ obj = PyNone
    /\ ret = NoCall

LockNext ==
    \/ \E p \in Procs, locknow \in BOOLEAN, directory \in DirectoryInputs :
          LockerNew(p, locknow, directory)
    \/ \E self \in Lockers : LockerLock(self)
    \/ \E self \in Lockers : LockerLockIfUnlocked(self)
    \/ \E self \in Lockers : LockerUnlock(self)
    \/ \E self \in Lockers : LockerUnlockIfLocked(self)
    \/ \E p \in Procs : LockerLocked(p)
    \/ \E p \in Procs : LockerUnlocked(p)
    \/ \E p \in Procs : ProcExit(p)
    \/ \E p \in Procs : ProcExitHook(p)
    \/ \E p \in Procs : ProcExited(p)
    \/ \E p \in Procs : ProcCrash(p)

SpecLock == LockInit /\ [][LockNext]_vars

(***************************************************************************)
(* Properties of the Locker                                                *)
(***************************************************************************)
SamePath(a, b) == lockers[a].path = lockers[b].path

\* Locker self is inside a release: os.rmdir has returned and "_locked =
\* False" is still to come.
MidRelease(self) ==
    /\ procs[Owner(self)].pc.self = self
    /\ procs[Owner(self)].pc.at = "unlocked"

\* Two different Lockers of living processes with the same path.
Rivals(a, b) == a # b /\ Live(a) /\ Live(b) /\ SamePath(a, b)

\* C7 as stated: no two living Lockers with the same path have _locked set
\* at the same time.
C7_AtMostOneHeld ==
    \A a, b \in Lockers :
        Rivals(a, b) => ~(lockers[a].locked /\ lockers[b].locked)

\* C7: no two living Lockers with the same path have _locked set at the
\* same time, a Locker that has removed the directory and has not yet
\* cleared its flag left aside.
C7_AtMostOneHolder ==
    \A a, b \in Lockers :
        Rivals(a, b) =>
            ~(/\ lockers[a].locked /\ ~MidRelease(a)
              /\ lockers[b].locked /\ ~MidRelease(b))

\* C7 witness: a Locker of one process has removed the directory and not
\* yet cleared its flag, and a Locker of another process has acquired the
\* same path meanwhile.
C7_Witness ==
    \E a, b \in Lockers :
        /\ Rivals(a, b)
        /\ Owner(a) # Owner(b)
        /\ lockers[a].locked /\ MidRelease(a)
        /\ lockers[b].locked /\ ~MidRelease(b)

\* C8: while a living Locker holds a path, every lock() and lockIfUnlocked()
\* of another Locker with that path raises AcquireError and leaves it not
\* locked; the release of the first removes the directory, and an acquire
\* made while the directory is absent creates it and ends with the Locker
\* locked and True returned.
C8_SecondAcquire ==
    [][\A a, b \in Lockers :
        (a # b /\ SamePath(a, b)) =>
          /\ (/\ Live(a) /\ lockers[a].locked /\ ~MidRelease(a)
              /\ LockerLock(b) \/ LockerLockIfUnlocked(b))
                => /\ ret'.who = b
                   /\ ret'.op \in {"lock", "lockIfUnlocked"}
                   /\ ret'.exc = "AcquireError"
                   /\ ~lockers'[b].locked
                   /\ procs'[Owner(b)].pc = Idle
          /\ (lockers[a].locked /\ LockerUnlock(a))
                => lockers[a].path \notin dirs'
          /\ (/\ ~lockers[b].locked
              /\ lockers[b].path \notin dirs
              /\ LockerLock(b) \/ LockerLockIfUnlocked(b))
                => /\ lockers[b].path \in dirs'
                   /\ procs'[Owner(b)].pc.self = b
                   /\ procs'[Owner(b)].pc.at = "locked"
          /\ (procs[Owner(b)].pc.self = b /\ LockerLocked(Owner(b)))
                => /\ lockers'[b].locked
                   /\ ret'.who = b
                   /\ ret'.exc = ""
                   /\ ret'.op # "Locker" => ret'.val = PyBool(TRUE)
      ]_vars

\* C8 witness: the second Locker has just acquired the path that the first,
\* a Locker of another living process, held before and has released.
C8_Witness ==
    \E a, b \in Lockers :
        /\ Rivals(a, b)
        /\ Owner(a) # Owner(b)
        /\ \E k \in 1..Len(procs[Owner(a)].hooks) : procs[Owner(a)].hooks[k] = a
        /\ ~lockers[a].locked
        /\ lockers[b].locked
        /\ ret = Returned("lock", b, PyBool(TRUE))

\* C9: lock() on a Locker that is locked raises StateError, unlock() on one
\* that is not locked raises StateError, and neither changes a flag, the
\* filesystem or the hooks.
C9_MisuseRejected ==
    [][\A self \in Lockers :
          /\ (lockers[self].locked /\ LockerLock(self))
                => /\ ret' = Raised("lock", self, "StateError")
                   /\ UNCHANGED lockVars
          /\ (~lockers[self].locked /\ LockerUnlock(self))
                => /\ ret' = Raised("unlock", self, "StateError")
                   /\ UNCHANGED lockVars
      ]_vars

\* C9 witness: unlock() was refused on a Locker that is not locked while
\* another living Locker holds the same path, and the directory is there.
C9_Witness ==
    \E a, b \in Lockers :
        /\ Rivals(a, b)
        /\ lockers[a].locked /\ ~MidRelease(a)
        /\ lockers[a].path \in dirs
        /\ ~lockers[b].locked
        /\ ret = Raised("unlock", b, "StateError")

\* C10: unlockIfLocked never raises StateError and returns True, whether it
\* had a lock to release or not.
C10_ReleaseIfHeldReturnsTrue ==
    ret.op = "unlockIfLocked" =>
        /\ ret.exc # "StateError"
        /\ ret.exc = "" => ret.val = PyBool(TRUE)

\* The Lockers of process p.
LockersOf(p) == {self \in Lockers : lockers[self].proc = p}

\* Locker self is inside an acquire: os.mkdir has returned and "_locked =
\* True" is still to come.
MidAcquire(self) ==
    /\ procs[Owner(self)].pc.self = self
    /\ procs[Owner(self)].pc.at = "locked"

\* Locker self has created its directory and not yet removed it.
Holds(self) ==
    (lockers[self].locked /\ ~MidRelease(self)) \/ MidAcquire(self)

\* Some process has been killed.
SomeCrash == \E q \in Procs : procs[q].status = "crashed"

\* C11: when a process ends normally, every Locker of it that is locked has
\* a hook; the hook of a locked Locker removes its directory without
\* raising, the hook of one that is not locked does nothing and returns; and
\* when the process is gone none of its Lockers is locked and, unless some
\* process was killed, a directory of theirs that exists is one a Locker of
\* another living process has acquired.
C11_ExitReleases ==
    [][\A p \in Procs :
          /\ ProcExit(p) =>
                \A self \in LockersOf(p) :
                    lockers[self].locked =>
                        \E k \in 1..Len(procs'[p].pending) :
                            procs'[p].pending[k] = self
          /\ ProcExitHook(p) =>
                LET self == Head(procs[p].pending) IN
                IF lockers[self].locked
                THEN /\ lockers[self].path \in dirs
                     /\ lockers[self].path \notin dirs'
                     /\ procs'[p].pc = InCall("unlockIfLocked", self, "unlocked")
                     /\ ret' = ret
                ELSE /\ UNCHANGED <<dirs, lockers>>
                     /\ procs'[p].pc = Idle
                     /\ ret' = Returned("unlockIfLocked", self, PyNone)
          /\ ProcExited(p) =>
                \A self \in LockersOf(p) :
                    /\ ~lockers[self].locked
                    /\ (lockers[self].path \in dirs /\ ~SomeCrash) =>
                          \E other \in Lockers :
                              /\ Owner(other) # p
                              /\ Live(other)
                              /\ SamePath(self, other)
                              /\ Holds(other)
      ]_vars

\* C11 witness: a process that ends normally is inside the hook that
\* releases its lock, with the directory removed, and a hook left over from
\* an earlier acquire of the same Locker is still to run.
C11_Witness ==
    \E p \in Procs :
        /\ procs[p].status = "exiting"
        /\ procs[p].pc.at = "unlocked"
        /\ procs[p].pending # <<>>
        /\ Head(procs[p].pending) = procs[p].pc.self
        /\ lockers[procs[p].pc.self].path \notin dirs

\* Directory d is stranded: it exists and no Locker of a living process
\* with that path has created it.
Stranded(d) ==
    /\ d \in dirs
    /\ \A self \in Lockers :
          (Live(self) /\ lockers[self].path = d) => ~Holds(self)

\* C12: killing a process leaves the filesystem as it is, so the directory
\* of a Locker it held is stranded; a stranded directory stays and stays
\* stranded whatever is called, and every lock(), lockIfUnlocked() and
\* Locker(True) on its path raises AcquireError.
C12_CrashStrands ==
    [][/\ \A p \in Procs :
             ProcCrash(p) =>
                 /\ dirs' = dirs
                 /\ \A self \in LockersOf(p) :
                       Holds(self) => Stranded(lockers[self].path)'
       /\ \A d \in dirs :
             Stranded(d) =>
                 /\ d \in dirs'
                 /\ Stranded(d)'
                 /\ \A self \in Lockers :
                       (/\ lockers[self].path = d
                        /\ LockerLock(self) \/ LockerLockIfUnlocked(self))
                          => /\ ret'.who = self
                             /\ ret'.exc = "AcquireError"
                             /\ ~lockers'[self].locked
                 /\ \A p \in Procs, directory \in DirectoryInputs :
                       (/\ ~Locker_setpath_raises(directory)
                        /\ Locker_setpath(directory) = d
                        /\ LockerNew(p, TRUE, directory))
                          => /\ ret' = Raised("Locker", 0, "AcquireError")
                             /\ lockers' = lockers
      ]_vars

\* C12 witness: a process was killed, its directory is stranded, and a
\* Locker of a living process has just been refused the lock on that path.
C12_Witness ==
    /\ SomeCrash
    /\ \E self \in Lockers :
          /\ Live(self)
          /\ Stranded(lockers[self].path)
          /\ ret = Raised("lock", self, "AcquireError")

(***************************************************************************)
(* A single Option: obj is the Option, built for one of the supported      *)
(* names, and the calls are made on it directly.                           *)
(***************************************************************************)
\* No BackupRun, Defaultable or FilterSet has been built.
NoRuns ==
    /\ heap = <<>>
    /\ wasSet = {}
    /\ overridden = {}
    /\ fsets = <<>>
    /\ runs = <<>>
    /\ optOrder = <<>>
    /\ attr = ""
    /\ nops = 0

\* The values assigned to the Option.
OptionValues ==
    {PyBool(TRUE), PyBool(FALSE), PyNone, PyInt(0), PyInt(1), PyInt(5),
     PyStr("a")}

\* option.value = value
OptionSet(value) ==
    /\ obj.t = "Option"
    /\ IF Option_setvalue_raises(obj.v, value)
       THEN /\ ret' = Raised("setvalue", 0, "TypeError")
            /\ UNCHANGED obj
       ELSE /\ obj' = [obj EXCEPT !.v = Option_setvalue(obj.v, value)]
            /\ ret' = Returned("setvalue", 0, PyNone)
    /\ UNCHANGED <<heap, wasSet, overridden, fsets, runs, optOrder, attr, nops,
                   lockVars>>

\* option.default()
OptionDefault ==
    /\ obj.t = "Option"
    /\ obj' = [obj EXCEPT !.v = Option_default(obj.v)]
    /\ ret' = Returned("default", 0, Option_default_value(obj.v))
    /\ UNCHANGED <<heap, wasSet, overridden, fsets, runs, optOrder, attr, nops,
                   lockVars>>

\* reading option.params
OptionParams ==
    /\ obj.t = "Option"
    /\ ret' = Returned("params", 0, PyTuple(Option_getparams(obj.v)))
    /\ UNCHANGED <<heap, wasSet, overridden, fsets, runs, optOrder, attr, nops,
                   lockVars, obj>>

OptionInit ==
    /\ NoRuns
    /\ NoLockers
    /\ obj \in {PossibleOptions[k] : k \in 1..Len(PossibleOptions)}
    /\ ret = NoCall

OptionNext ==
    \/ \E value \in OptionValues : OptionSet(value)
    \/ OptionDefault
    \/ OptionParams

SpecOption == OptionInit /\ [][OptionNext]_vars

\* C13: a boolean option renders no tokens while its value equals the
\* default it was declared with and the single token --name otherwise,
\* whatever was assigned and reset before.
C13_BooleanRendering ==
    (obj.t = "Option" /\ obj.v.type.t = "bool") =>
        /\ Option_getparams(obj.v)
              = IF PyEq(obj.v.value, obj.v.type) THEN <<>>
                ELSE <<"--" \o obj.v.name>>
        /\ ret.op = "params" =>
              ret.val.v \in {<<>>, <<"--" \o obj.v.name>>}

\* C13 witness: an option declared with default True was set to False and
\* rendered its name.
C13_Witness ==
    /\ obj.t = "Option"
    /\ obj.v.type = PyBool(TRUE)
    /\ obj.v.value = PyBool(FALSE)
    /\ ret = Returned("params", 0, PyTuple(<<"--" \o obj.v.name>>))

\* C14: a ternary option renders nothing when unknown, --name when true and
\* --no-name when false, and nothing else for any value it accepted.
C14_TernaryRendering ==
    (obj.t = "Option" /\ obj.v.type = PyType("Ternary")) =>
        /\ obj.v.value = PyNone => Option_getparams(obj.v) = <<>>
        /\ PyEq(obj.v.value, PyBool(TRUE))
              => Option_getparams(obj.v) = <<"--" \o obj.v.name>>
        /\ PyEq(obj.v.value, PyBool(FALSE))
              => Option_getparams(obj.v) = <<"--no-" \o obj.v.name>>
        /\ Option_getparams(obj.v)
              \in {<<>>, <<"--" \o obj.v.name>>, <<"--no-" \o obj.v.name>>}

(***************************************************************************)
(* A single FilterSet: fsets[1] is its _filters list.                      *)
(***************************************************************************)
MaxMembers == 6

F1 == PyFilter("Exclude", PyStr("/proc/*"))
F2 == PyFilter("Include", PyStr("/etc"))
F3 == PyFilter("ExcludeSockets", PyNone)
F4 == PyFilter("MaxFileSize", PyInt(5))

\* The argument lists of FilterSet(...) and extend(...): filters, nested
\* lists of filters, empty lists, and one with a value that is no filter.
ExtendArgs ==
    {<<>>,
     <<F1>>,
     <<F2, F3>>,
     <<PyTuple(<<F1, PyTuple(<<F2, F3>>)>>), F4>>,
     <<PyTuple(<<>>), PyTuple(<<PyTuple(<<F4>>)>>), F1>>,
     <<F3, PyInt(5), F2>>}

\* The number of filters in an argument, at any depth.
RECURSIVE CountFilters(_)
CountFilters(arg) ==
    IF arg.t = "Filter" THEN 1
    ELSE IF arg.t # "tuple" \/ arg.v = <<>> THEN 0
    ELSE CountFilters(Head(arg.v)) + CountFilters(PyTuple(Tail(arg.v)))

\* fs.extend(*args)
FilterExtend(args) ==
    /\ Len(fsets) = 1
    /\ Len(fsets[1]) + CountFilters(PyTuple(args)) <= MaxMembers
    /\ LET res == FilterSet_extend(fsets[1], args) IN
       /\ fsets' = <<res.filters>>
       /\ ret' = IF res.exc # "" THEN Raised("extend", 0, res.exc)
                 ELSE Returned("extend", 0, PyNone)
    /\ UNCHANGED <<heap, wasSet, overridden, runs, optOrder, attr, nops,
                   lockVars, obj>>

\* reading fs.params
FilterParams ==
    /\ Len(fsets) = 1
    /\ ret' = Returned("params", 0, PyTuple(FilterSet_getparams(fsets[1])))
    /\ UNCHANGED <<heap, wasSet, overridden, fsets, runs, optOrder, attr, nops,
                   lockVars, obj>>

\* After fs = FilterSet(*args), for the arguments it accepts.
FilterInit ==
    /\ heap = <<>>
    /\ wasSet = {}
    /\ overridden = {}
    /\ \E args \in ExtendArgs :
          /\ FilterSet_init(args).exc = ""
          /\ fsets = <<FilterSet_init(args).filters>>
    /\ runs = <<>>
    /\ optOrder = <<>>
    /\ attr = ""
    /\ nops = 0
    /\ NoLockers
    /\ obj = PyNone
    /\ ret = NoCall

FilterNext ==
    \/ \E args \in ExtendArgs : FilterExtend(args)
    \/ FilterParams

SpecFilters == FilterInit /\ [][FilterNext]_vars

\* The filters of an argument in depth-first order, left to right.
RECURSIVE DepthFirst(_)
DepthFirst(arg) ==
    IF arg.t = "Filter" THEN <<arg>>
    ELSE Flatten([k \in 1..Len(arg.v) |-> DepthFirst(arg.v[k])])

\* The argument holds filters and sequences only, at every depth.
RECURSIVE OnlyFilters(_)
OnlyFilters(arg) ==
    \/ arg.t = "Filter"
    \/ arg.t = "tuple" /\ \A k \in 1..Len(arg.v) : OnlyFilters(arg.v[k])

\* C15: extend with filters and nested sequences of filters appends the
\* filters in depth-first order behind the members the set had, the
\* arguments (f1, (f2, f3)), f4 giving f1, f2, f3, f4; and params is the
\* concatenation of the members' params in list order.
C15_ExtendFlattens ==
    [][/\ \A args \in ExtendArgs :
             (OnlyFilters(PyTuple(args)) /\ FilterExtend(args)) =>
                 /\ ret' = Returned("extend", 0, PyNone)
                 /\ fsets'[1] = fsets[1] \o DepthFirst(PyTuple(args))
       /\ FilterExtend(<<PyTuple(<<F1, PyTuple(<<F2, F3>>)>>), F4>>)
             => fsets'[1] = fsets[1] \o <<F1, F2, F3, F4>>
       /\ FilterParams =>
             ret'.val.v = Flatten([k \in 1..Len(fsets[1]) |->
                              Filter_getparams(fsets[1][k].v)])
      ]_vars

\* C15 witness: a set that had members was extended by (f1, (f2, f3)), f4
\* and then rendered.
C15_Witness ==
    /\ Len(fsets) = 1
    /\ Len(fsets[1]) > 4
    /\ SubSeq(fsets[1], Len(fsets[1]) - 3, Len(fsets[1])) = <<F1, F2, F3, F4>>
    /\ ret.op = "params"
    /\ Len(ret.val.v) > 7

(***************************************************************************)
(* A single Place: obj is a Source or a Destination.                       *)
(***************************************************************************)
\* The values given to the fields of a Place: nothing, a string, and a
\* value that is no string.
DirectoryValues == {PyNone, PyStr("/srv"), PyInt(5)}
HostValues == {PyNone, PyStr("a.example.de"), PyInt(5)}
UserValues == {PyNone, PyStr("bak"), PyInt(5)}

IsPlace == obj.t \in {"Source", "Destination"}

\* place.directory = value, place.host = value, place.user = value: plain
\* attributes, nothing is looked at.
PlaceSetDirectory(value) ==
    /\ IsPlace
    /\ obj' = [obj EXCEPT !.v.directory = value]
    /\ ret' = Returned("setfield", 0, PyNone)
    /\ UNCHANGED <<heap, wasSet, overridden, fsets, runs, optOrder, attr, nops,
                   lockVars>>

PlaceSetHost(value) ==
    /\ IsPlace
    /\ obj' = [obj EXCEPT !.v.host = value]
    /\ ret' = Returned("setfield", 0, PyNone)
    /\ UNCHANGED <<heap, wasSet, overridden, fsets, runs, optOrder, attr, nops,
                   lockVars>>

PlaceSetUser(value) ==
    /\ IsPlace
    /\ obj' = [obj EXCEPT !.v.user = value]
    /\ ret' = Returned("setfield", 0, PyNone)
    /\ UNCHANGED <<heap, wasSet, overridden, fsets, runs, optOrder, attr, nops,
                   lockVars>>

\* reading place.string
PlaceString ==
    /\ IsPlace
    /\ LET res == Place_getstring(obj.v) IN
       ret' = IF res.exc # "" THEN Raised("string", 0, res.exc)
              ELSE Returned("string", 0, PyStr(res.val))
    /\ UNCHANGED <<heap, wasSet, overridden, fsets, runs, optOrder, attr, nops,
                   lockVars, obj>>

\* After Source(directory, host, user) or Destination(directory, host, user).
PlaceInit ==
    /\ NoRuns
    /\ NoLockers
    /\ \E cls \in {"Source", "Destination"}, directory \in DirectoryValues,
          host \in HostValues, user \in UserValues :
          obj = Place_init(cls, directory, host, user)
    /\ ret = NoCall

PlaceNext ==
    \/ \E value \in DirectoryValues : PlaceSetDirectory(value)
    \/ \E value \in HostValues : PlaceSetHost(value)
    \/ \E value \in UserValues : PlaceSetUser(value)
    \/ PlaceString

SpecPlace == PlaceInit /\ [][PlaceNext]_vars

\* A field of a Place is set when it holds a string.
IsSet(field) == field.t = "str"

\* What a Place has to render as: the string, or "" for the
\* SettingCombinationError.
ExpectedPlace(self) ==
    LET directory == IF IsSet(self.directory) THEN self.directory.v ELSE "/" IN
    IF IsSet(self.user) /\ IsSet(self.host)
    THEN Returned("string", 0,
             PyStr(self.user.v \o "@" \o self.host.v \o "::" \o directory))
    ELSE IF IsSet(self.host)
    THEN Returned("string", 0, PyStr(self.host.v \o "::" \o directory))
    ELSE IF IsSet(self.user)
    THEN Raised("string", 0, "SettingCombinationError")
    ELSE IF IsSet(self.directory)
    THEN Returned("string", 0, PyStr(self.directory.v))
    ELSE Raised("string", 0, "SettingCombinationError")

\* C16: a Place renders as user@host::directory, host::directory or the
\* directory, with "/" for a directory that is not set, and raises
\* SettingCombinationError for a user without host and for no setting at
\* all; assigning a field never raises.
C16_PlaceRendering ==
    IsPlace =>
        /\ LET res == Place_getstring(obj.v) IN
           (IF res.exc # "" THEN Raised("string", 0, res.exc)
            ELSE Returned("string", 0, PyStr(res.val))) = ExpectedPlace(obj.v)
        /\ ret.op = "string" => ret = ExpectedPlace(obj.v)
        /\ ret.op = "setfield" => ret.exc = ""

\* C16 witness: a Place with a user and no host was built or assigned
\* without an error, and rendering it raised SettingCombinationError.
C16_Witness ==
    /\ IsPlace
    /\ IsSet(obj.v.user)
    /\ ~IsSet(obj.v.host)
    /\ ret = Raised("string", 0, "SettingCombinationError")

(***************************************************************************)
(* PullCompleteHost: obj is the generator. Strings are sequences of        *)
(* characters here, the regex is the default one.                          *)
(***************************************************************************)
MaxIdLen == 3

\* The characters the default regex '[^A-Za-z0-9.-]' does not match.
DefaultRegexKeeps ==
    {"A", "B", "C", "D", "E", "F", "G", "H", "I", "J", "K", "L", "M",
     "N", "O", "P", "Q", "R", "S", "T", "U", "V", "W", "X", "Y", "Z",
     "a", "b", "c", "d", "e", "f", "g", "h", "i", "j", "k", "l", "m",
     "n", "o", "p", "q", "r", "s", "t", "u", "v", "w", "x", "y", "z",
     "0", "1", "2", "3", "4", "5", "6", "7", "8", "9", ".", "-"}

\* self.regex.sub replacing a whole run of matching characters at once, as
\* a regex ending in + would.
RECURSIVE regex_sub_runs(_, _)
regex_sub_runs(subst, host) ==
    IF host = <<>> THEN <<>>
    ELSE IF Head(host) \in DefaultRegexKeeps
    THEN <<Head(host)>> \o regex_sub_runs(subst, Tail(host))
    ELSE IF Len(host) > 1 /\ host[2] \notin DefaultRegexKeeps
    THEN regex_sub_runs(subst, Tail(host))
    ELSE subst \o regex_sub_runs(subst, Tail(host))

\* self.regex.sub(self.subst, host) for the default regex: every match is
\* one character.
RECURSIVE regex_sub(_, _)
regex_sub(subst, host) ==
    IF host = <<>> THEN <<>>
    ELSE (IF Head(host) \in DefaultRegexKeeps THEN <<Head(host)>> ELSE subst)
             \o regex_sub(subst, Tail(host))

\* The current directory of the process, for os.path.abspath.
GetCwd == <<"/", "h">>

\* PullCompleteHost._setbasedir: the _basedir it stores.
PullCompleteHost_setbasedir(value) ==
    IF os_path_isabs(value) THEN value ELSE os_path_join(GetCwd, value)

\* PullCompleteHost.__init__(basedir, user)
PullCompleteHost_init(basedir, user) ==
    [t |-> "PullCompleteHost",
     v |-> [basedir |-> PullCompleteHost_setbasedir(basedir), user |-> user,
            subst |-> <<"_">>]]

\* PullCompleteHost.generate(host): the pair (s, d).
PullCompleteHost_generate(self, host) ==
    PyTuple(<<Place_init("Source", PyChars(<<"/">>), PyChars(host), self.user),
              Place_init("Destination",
                  PyChars(os_path_join(self.basedir,
                                       regex_sub(self.subst, host))),
                  PyNone, PyNone)>>)

\* The sequences over S of length at most n.
SeqsUpTo(S, n) == UNION {[1..k -> S] : k \in 0..n}

\* The host names generate is called with.
HostIds == SeqsUpTo({"a", ".", " ", "/"}, MaxIdLen)

\* The substitute strings and the users the generator is configured with.
SubstInputs == {<<"_">>, <<"-", "-">>}
GeneratorUsers == {PyNone, PyChars(<<"b", "a", "k">>)}
BasedirInputs == {<<"/", "v">>, <<"/", "v", "/">>, <<"b">>}

IsGenerator == obj.t = "PullCompleteHost"

\* generator.generate(host); ret.who records the argument.
Generate(host) ==
    /\ IsGenerator
    /\ ret' = Returned("generate", host, PullCompleteHost_generate(obj.v, host))
    /\ UNCHANGED <<heap, wasSet, overridden, fsets, runs, optOrder, attr, nops,
                   lockVars, obj>>

\* generator.subst = value
GeneratorSetSubst(value) ==
    /\ IsGenerator
    /\ obj' = [obj EXCEPT !.v.subst = value]
    /\ ret' = Returned("setsubst", 0, PyNone)
    /\ UNCHANGED <<heap, wasSet, overridden, fsets, runs, optOrder, attr, nops,
                   lockVars>>

\* generator.user = value
GeneratorSetUser(value) ==
    /\ IsGenerator
    /\ obj' = [obj EXCEPT !.v.user = value]
    /\ ret' = Returned("setuser", 0, PyNone)
    /\ UNCHANGED <<heap, wasSet, overridden, fsets, runs, optOrder, attr, nops,
                   lockVars>>

\* After PullCompleteHost(basedir, user).
GeneratorInit ==
    /\ NoRuns
    /\ NoLockers
    /\ \E basedir \in BasedirInputs, user \in GeneratorUsers :
          obj = PullCompleteHost_init(basedir, user)
    /\ ret = NoCall

GeneratorNext ==
    \/ \E host \in HostIds : Generate(host)
    \/ \E value \in SubstInputs : GeneratorSetSubst(value)
    \/ \E value \in GeneratorUsers : GeneratorSetUser(value)

SpecGenerator == GeneratorInit /\ [][GeneratorNext]_vars

\* The host name with every character outside [A-Za-z0-9.-] replaced by the
\* substitute.
SubstEachChar(subst, host) ==
    Flatten([k \in 1..Len(host) |->
                IF host[k] \in DefaultRegexKeeps THEN <<host[k]>> ELSE subst])

\* The host name with every run of characters outside [A-Za-z0-9.-]
\* replaced by one substitute.
SubstEachRun(subst, host) ==
    Flatten([k \in 1..Len(host) |->
                IF host[k] \in DefaultRegexKeeps THEN <<host[k]>>
                ELSE IF k > 1 /\ host[k - 1] \notin DefaultRegexKeeps THEN <<>>
                ELSE subst])

\* The pair generate has to return when the directory name is name.
ExpectedPair(self, host, name) ==
    PyTuple(<<[t |-> "Source",
               v |-> [defaultdir |-> "/", directory |-> PyChars(<<"/">>),
                      host |-> PyChars(host), user |-> self.user]],
              [t |-> "Destination",
               v |-> [defaultdir |-> "/",
                      directory |-> PyChars(os_path_join(self.basedir, name)),
                      host |-> PyNone, user |-> PyNone]]>>)

\* C17 as stated: generate returns the Source ('/', host, user) and the
\* Destination basedir joined with the host name in which every run of
\* characters outside [A-Za-z0-9.-] is replaced by one substitute, and it
\* leaves the generator as it is.
C17_GenerateRuns ==
    [][ret'.op = "generate" =>
          /\ ret'.val = ExpectedPair(obj.v, ret'.who,
                            SubstEachRun(obj.v.subst, ret'.who))
          /\ obj' = obj
      ]_vars

\* C17: generate returns the Source ('/', host, user) and the Destination
\* basedir joined with the host name in which every single character
\* outside [A-Za-z0-9.-] is replaced by the substitute, and it leaves the
\* generator as it is.
C17_GenerateChars ==
    [][ret'.op = "generate" =>
          /\ ret'.val = ExpectedPair(obj.v, ret'.who,
                            SubstEachChar(obj.v.subst, ret'.who))
          /\ obj' = obj
      ]_vars

\* C17 witness: generate was called with a host name that has two
\* characters in a row outside the set, and the directory name has one
\* substitute for each.
C17_Witness ==
    /\ IsGenerator
    /\ ret.op = "generate"
    /\ LET host == ret.val.v[1].v.host.v IN
       /\ \E k \in 1..(Len(host) - 1) :
             host[k] \notin DefaultRegexKeeps /\ host[k + 1] \notin DefaultRegexKeeps
       /\ host = ret.who
       /\ SubstEachChar(obj.v.subst, host) # SubstEachRun(obj.v.subst, host)
       /\ ret.val.v[2].v.directory
             = PyChars(os_path_join(obj.v.basedir,
                                    SubstEachChar(obj.v.subst, host)))

(***************************************************************************)
(* Families of job descriptors: a parent with children and grandchildren.  *)
(***************************************************************************)
MaxFamily == 3

\* BackupRun(parent), up to MaxFamily runs.
FamilyNew(parent) ==
    /\ Len(runs) < MaxFamily
    /\ BackupRun_init(parent)
    /\ ret' = Returned("BackupRun", 0, PyNone)
    /\ UNCHANGED <<wasSet, overridden, optOrder, attr, nops>>
    /\ UNCHANGED <<lockVars, obj>>

\* run.filters = other.filters: _setfilters stores the object it is given,
\* here the FilterSet another run already has.
RunShareFilters(self, other) ==
    /\ nops < MaxOps
    /\ nops' = nops + 1
    /\ runs' = [runs EXCEPT ![self].filters = runs[other].filters]
    /\ ret' = Returned("sharefilters", self, PyNone)
    /\ UNCHANGED <<heap, wasSet, overridden, fsets, optOrder, attr>>
    /\ UNCHANGED <<lockVars, obj>>

FiltersInit ==
    /\ RunInit
    /\ optOrder = PropertyNames
    /\ attr = "force"

FiltersNext ==
    \/ \E parent \in (IF runs = <<>> THEN {0} ELSE Runs) : FamilyNew(parent)
    \/ \E r \in Runs, args \in FilterArgs : RunSetFilters(r, args)
    \/ \E r \in Runs, args \in FilterArgs : RunExtendFilters(r, args)
    \/ \E r, other \in Runs : r # other /\ RunShareFilters(r, other)

SpecFamilyFilters == FiltersInit /\ [][FiltersNext]_vars

\* The filter tokens of a run.
RunFilterParams(r) == FilterSet_getparams(fsets[runs[r].filters])

\* The filter tokens of the run the step has constructed.
NewFilterParams == FilterSet_getparams(fsets'[runs'[Len(runs')].filters])

\* r is the parent, a child or a sibling of self.
NextOfKin(r, self) ==
    /\ r # self
    /\ \/ runs[self].parent = r
       \/ runs[r].parent = self
       \/ runs[r].parent # 0 /\ runs[r].parent = runs[self].parent

\* The step extends or replaces the filter set of run self.
FiltersCall(self) ==
    /\ nops' = nops + 1
    /\ ret'.who = self
    /\ ret'.op \in {"extend", "setfilters", "sharefilters"}

\* The step constructs a run.
Constructed == Len(runs') = Len(runs) + 1

FamilyInit ==
    /\ RunInit
    /\ optOrder = PropertyNames

FamilyNext ==
    \/ \E parent \in (IF runs = <<>> THEN {0} ELSE Runs) : FamilyNew(parent)
    \/ \E r \in Runs, value \in OptionInputs : RunSetAttr(r, attr, value)
    \/ \E r \in Runs : RunDelAttr(r, attr)
    \/ \E r \in Runs, value \in SourceInputs : RunSetSource(r, value)
    \/ \E r \in Runs, value \in DestinationInputs : RunSetDestination(r, value)

SpecFamily == FamilyInit /\ [][FamilyNext]_vars

\* The runs above r: its parent, the parent of its parent, and so on.
RECURSIVE Ancestors(_)
Ancestors(r) ==
    IF runs[r].parent = 0 THEN {}
    ELSE {runs[r].parent} \cup Ancestors(runs[r].parent)

\* The other children of the parent of r.
Siblings(r) ==
    {s \in Runs : s # r /\ runs[s].parent # 0 /\ runs[s].parent = runs[r].parent}

\* The step sets or deletes an option, the source or the destination of
\* run self, with or without success.
WriteCall(self) ==
    /\ nops' = nops + 1
    /\ ret'.who = self
    /\ ret'.op \in {"setattr", "delattr", "setsource", "setdestination"}

\* C19: setting or deleting an option, the source or the destination of a
\* run changes no Defaultable of another run, and the values read through
\* the Defaultables of its ancestors and of its siblings stay as they were,
\* whether or not the run was inheriting the field.
C19_WritesOwnNode ==
    [][\A self \in Runs : WriteCall(self) =>
          /\ \A n \in Nodes \ RunNodes(self) : heap'[n] = heap[n]
          /\ \A r \in Ancestors(self) \cup Siblings(self) :
                \A n \in RunNodes(r) :
                    Defaultable_getvalue(heap', n) = Defaultable_getvalue(heap, n)
      ]_vars

\* C19 witness: the first write of all went to a run that was inheriting
\* the option from a parent that inherits it from its own parent, and the
\* run now reads a value that differs from what the two above it read.
C19_Witness ==
    /\ KnownAttr
    /\ nops = 1
    /\ ret.op = "setattr"
    /\ ret.exc = ""
    /\ ret.who \in Runs
    /\ LET self == ret.who IN
       /\ runs[self].parent # 0
       /\ runs[runs[self].parent].parent # 0
       /\ heap[AttrNode(runs[self].parent)].defaulting
       /\ \A r \in Ancestors(self) :
             Defaultable_getvalue(heap, AttrNode(r))
                 # Defaultable_getvalue(heap, AttrNode(self))

(***************************************************************************)
(* Lockers whose path is assigned again after construction.                *)
(***************************************************************************)
\* self.path = value
LockerSetPath(self, value) ==
    /\ Ready(Owner(self))
    /\ IF Locker_setpath_raises(value)
       THEN /\ ret' = Raised("setpath", self, "TypeError")
            /\ UNCHANGED lockers
       ELSE /\ lockers' = [lockers EXCEPT ![self].path = Locker_setpath(value)]
            /\ ret' = Returned("setpath", self, PyNone)
    /\ UNCHANGED <<dirs, procs, heap, wasSet, runVars>>

PathNext ==
    \/ LockNext
    \/ \E self \in Lockers, value \in DirectoryInputs : LockerSetPath(self, value)

SpecPath == LockInit /\ [][PathNext]_vars

\* C20: a Locker of a living process that has _locked set, and is not inside
\* a release that has already removed the directory, has a directory at
\* its current path; and as long as no process was killed, every lock
\* directory that exists is at the current path of a Locker of a living
\* process that has acquired it.
C20_HeldMeansDirectory ==
    /\ \A self \in Lockers :
          Live(self) /\ lockers[self].locked /\ ~MidRelease(self)
              => lockers[self].path \in dirs
    /\ ~SomeCrash =>
          \A d \in dirs :
              \E self \in Lockers :
                  Live(self) /\ lockers[self].path = d /\ Holds(self)

(***************************************************************************)
(* Lockers on a filesystem that can refuse os.mkdir and os.rmdir.          *)
(***************************************************************************)
\* The filesystem starts or stops refusing changes.
FsSetRefuses(b) ==
    /\ FsFaulty
    /\ obj.v.refuses # b
    /\ obj' = [obj EXCEPT !.v.refuses = b]
    /\ UNCHANGED <<heap, wasSet, overridden, fsets, runs, optOrder, attr, nops,
                   lockVars, ret>>

\* Something is put into the lock directory d.
FsPutFile(d) ==
    /\ FsFaulty
    /\ ~obj.v.refuses
    /\ d \in dirs \ obj.v.full
    /\ obj' = [obj EXCEPT !.v.full = @ \cup {d}]
    /\ UNCHANGED <<heap, wasSet, overridden, fsets, runs, optOrder, attr, nops,
                   lockVars, ret>>

\* The lock directory d is emptied again.
FsTakeFile(d) ==
    /\ FsFaulty
    /\ ~obj.v.refuses
    /\ d \in obj.v.full
    /\ obj' = [obj EXCEPT !.v.full = @ \ {d}]
    /\ UNCHANGED <<heap, wasSet, overridden, fsets, runs, optOrder, attr, nops,
                   lockVars, ret>>

FaultInit ==
    /\ heap = <<>>
    /\ wasSet = {}
    /\ overridden = {}
    /\ fsets = <<>>
    /\ runs = <<>>
    /\ optOrder = <<>>
    /\ attr = ""
    /\ nops = 0
    /\ lockers = <<>>
    /\ dirs = {}
    /\ procs = [p \in Procs |-> [status |-> "running", pc |-> Idle,
                                 hooks |-> <<>>, pending |-> <<>>]]
    /\ obj = [t |-> "filesystem", v |-> [refuses |-> FALSE, full |-> {}]]
    /\ ret = NoCall

FaultNext ==
    \/ LockNext
    \/ \E b \in BOOLEAN : FsSetRefuses(b)
    \/ \E d \in dirs : FsPutFile(d)
    \/ \E d \in dirs : FsTakeFile(d)

SpecFault == FaultInit /\ [][FaultNext]_vars

\* C21: when os.mkdir fails in an acquire for another reason than an
\* existing directory, the call raises the OSError, the Locker stays not
\* locked, no hook is registered and no call is left in progress; when
\* os.rmdir fails in a release, the call raises the OSError, the Locker
\* stays locked and the directory stays as it is.
C21_ErrorsPropagate ==
    [][\A self \in Lockers :
        /\ ( (LockerLock(self) \/ LockerLockIfUnlocked(self))
             /\ ~lockers[self].locked
             /\ lockers[self].path \notin dirs
             /\ FsRefuses )
           => /\ ret'.exc = "OSError"
              /\ ret'.who = self
              /\ ret'.op \in {"lock", "lockIfUnlocked"}
              /\ ~lockers'[self].locked
              /\ UNCHANGED <<lockers, dirs, procs>>
        /\ ( (LockerUnlock(self) \/ LockerUnlockIfLocked(self))
             /\ lockers[self].locked
             /\ lockers[self].path \in dirs
             /\ (FsNotEmpty(lockers[self].path) \/ FsRefuses) )
           => /\ ret'.exc = "OSError"
              /\ ret'.who = self
              /\ ret'.op \in {"unlock", "unlockIfLocked"}
              /\ lockers'[self].locked
              /\ UNCHANGED <<lockers, dirs, procs>>
      ]_vars

\* C21 witness: a release of a locked Locker has just raised OSError
\* because its directory is not empty; the Locker is still locked and the
\* directory is still there.
C21_Witness ==
    /\ FsFaulty
    /\ ret.op = "unlock"
    /\ ret.exc = "OSError"
    /\ ret.who \in Lockers
    /\ lockers[ret.who].locked
    /\ lockers[ret.who].path \in dirs
    /\ FsNotEmpty(lockers[ret.who].path)
    /\ ~FsRefuses
    /\ procs[Owner(ret.who)].pc = Idle

(***************************************************************************)
(* Rejected assignments to options                                         *)
(***************************************************************************)
\* C22: an assignment to an option that raises TypeError leaves every
\* Defaultable as it was, the stored value and the inheriting flag of the
\* run's own node included, so that the value read through the node still
\* is the one read through its parent.
C22_RejectedSetChangesNothing ==
    [][\A r \in Runs :
          (KnownAttr /\ Called("setattr", r) /\ ret'.exc = "TypeError") =>
              /\ heap' = heap
              /\ heap'[AttrNode(r)].defaulting = heap[AttrNode(r)].defaulting
      ]_vars

(***************************************************************************)
(* Rejected arguments of FilterSet.extend                                  *)
(***************************************************************************)
\* C23: an extend that raises TypeError for an argument that is neither a
\* filter nor a sequence leaves the members of the set as they were.
C23_FailedExtendUnchanged ==
    [][\A args \in ExtendArgs :
          (FilterExtend(args) /\ ret'.exc = "TypeError") => fsets' = fsets
      ]_vars

(***************************************************************************)
(* Parent links of the Defaultables                                        *)
(***************************************************************************)
\* The number of runs above r.
RunDepth(r) == Cardinality(Ancestors(r))

\* The number of times Defaultable._getvalue hands the read on to a parent
\* when the value of node n is read, counted up to fuel; fuel + 1 when the
\* read has not come to an end by then.
RECURSIVE Delegations(_, _)
Delegations(n, fuel) ==
    IF heap[n].defaulting /\ heap[n].parent # 0
    THEN IF fuel = 0 THEN 1 ELSE 1 + Delegations(heap[n].parent, fuel - 1)
    ELSE 0

\* Following the parent links from node n ends at a node without parent
\* within fuel steps.
RECURSIVE ParentsEnd(_, _)
ParentsEnd(n, fuel) ==
    \/ heap[n].parent = 0
    \/ fuel > 0 /\ ParentsEnd(heap[n].parent, fuel - 1)

\* C24: the parent links of the Defaultables of every run end at a node
\* without parent, so they form no cycle, and reading the value of a node
\* of a run hands the read on at most as many times as there are runs above
\* that run.
C24_NoParentCycle ==
    \A r \in Runs :
        \A n \in RunNodes(r) :
            /\ ParentsEnd(n, Len(heap))
            /\ Delegations(n, Len(heap)) <= RunDepth(r)

\* C24 witness: a run with two runs above it reads an option through both
\* of them, after calls that set or deleted values.
C24_Witness ==
    /\ KnownAttr
    /\ nops > 0
    /\ \E r \in Runs :
          /\ RunDepth(r) = 2
          /\ Delegations(AttrNode(r), Len(heap)) = 2
          /\ Delegations(runs[r].source, Len(heap)) < 2

====
